---- MODULE Spec2Model ----
(***************************************************************************)
(* Congressional trading scanner: the performance tracker's history        *)
(* (performance_tracker.py) and the scanner's deduplication, detectors and *)
(* aggregation (congressional_scanner.py), parse_amount and the record     *)
(* normalizers, and the two portfolio strategies                           *)
(* (congress_buys_strategy.py, dan_meuser_strategy.py) as                  *)
(* run_all_strategies.py drives them, the alerters (discord_alerts.py,     *)
(* strategy_discord_alerts.py) and run_pipeline.py.                        *)
(*                                                                         *)
(* Units.  Prices are integers in cents.  return_pct, avg_return, best and *)
(* worst returns are integers in hundredths of a percent (Python rounds    *)
(* them to two decimals), win_rate is in tenths of a percent.  Dates are   *)
(* day numbers.                                                            *)
(***************************************************************************)
EXTENDS Integers, Sequences, FiniteSets, TLC

VARIABLES
    history,   \* PerformanceTracker.history of the tracker instance
    today,     \* the calendar day datetime.now() falls on
    lastOp,    \* the last tracker operation and the price answers it got
    disk,      \* the content of history_file, or NoFile
    mem,       \* per tracker run: its self.history
    pc,        \* per tracker run: its position in the run
    launches,  \* number of tracker runs started so far
    lastSaver, \* the run whose save_history wrote the file last
    wasClosed, \* records some save moved to 'closed' in the file
    cluster_threshold,    \* CongressionalTradingScanner.cluster_threshold
    min_trade_size,       \* CongressionalTradingScanner.min_trade_size
    use_sample_data,      \* CongressionalTradingScanner.use_sample_data
    provided,             \* what fetch_from_apis returns
    trades,               \* fetch_all_trades: the list before deduplication
    unique_trades,        \* fetch_all_trades: the list it returns
    clusters,             \* scan_for_signals: output of detect_clusters
    large_trades,         \* output of detect_large_trades
    top_performer_trades, \* output of detect_top_performer_trades
    committee_aligned,    \* output of detect_committee_aligned_trades
    unusual_activity,     \* output of detect_unusual_activity
    results,              \* the dict scan_for_signals returns
    scanned,              \* whether scan_for_signals has run
    amount_str,           \* parse_amount: its argument
    parsed,               \* parse_amount: how the call ended
    response,             \* how each provider's request ended
    data,                 \* the records a provider answers with
    normalized,           \* the transactions the normalizer made of them
    fetched,              \* the normalizers that have run
    meuser_trades,        \* DanMeuserStrategy: the trades fetched
    meuser_portfolio,     \* output of calculate_current_portfolio
    meuser_signals,       \* output of generate_mirror_signals
    meuser_pc,            \* how far the mirror run has got
    purchases,            \* CongressBuysStrategy: the purchases fetched
    buys_portfolio,       \* output of calculate_portfolio_weights
    buys_signals,         \* output of generate_rebalance_signals
    buys_pc,              \* how far the aggregate run has got
    your_portfolio_value, \* the portfolio value the signals are sized for
    enabled,              \* the alerter's self.enabled
    answers,              \* how the webhook answers the successive posts
    alert_op,             \* the alert-sending operation called, its arguments
    posted,               \* the posts made to the webhook, with their outcome
    sent_count,           \* send_signals: its count of delivered embeds
    pipeline              \* run_pipeline.py: its runs and how the last ended

trackerVars == <<history, today, lastOp>>
runVars == <<disk, mem, pc, launches, lastSaver, wasClosed>>
configVars == <<cluster_threshold, min_trade_size, use_sample_data, provided>>
scanVars == <<trades, unique_trades, clusters, large_trades,
              top_performer_trades, committee_aligned, unusual_activity,
              results, scanned>>
parseVars == <<amount_str, parsed>>
fetchVars == <<response, data, normalized, fetched>>
mirrorVars == <<meuser_trades, meuser_portfolio, meuser_signals, meuser_pc>>
buysVars == <<purchases, buys_portfolio, buys_signals, buys_pc>>
alertVars == <<enabled, answers, alert_op, posted, sent_count>>
strategyVars == <<parseVars, fetchVars, mirrorVars, buysVars,
                  your_portfolio_value, alertVars, pipeline>>
vars == <<history, today, lastOp, disk, mem, pc, launches, lastSaver,
          wasClosed, cluster_threshold, min_trade_size, use_sample_data,
          provided, trades, unique_trades, clusters, large_trades,
          top_performer_trades, committee_aligned, unusual_activity,
          results, scanned, amount_str, parsed, response, data, normalized,
          fetched,
          meuser_trades, meuser_portfolio, meuser_signals, meuser_pc,
          purchases, buys_portfolio, buys_signals, buys_pc,
          your_portfolio_value, enabled, answers, alert_op, posted,
          sent_count, pipeline>>

----------------------------------------------------------------------------
(* Bounds *)

MaxTracked == 2
MaxDay == 30
MaxLaunches == 3
MaxRunTracked == 1
MaxTrades == 4

(* Program constants *)

None == -1
CloseDays == 30
ClosePct == 20

----------------------------------------------------------------------------
(* Python helpers *)

\* dict.get(key, default)
Get(d, k, default) == IF k \in DOMAIN d THEN d[k] ELSE default

\* truthiness of a price: None, 0 and 0.0 are falsy
Truthy(x) == x # None /\ x # 0

\* round(n / d) for d > 0, ties to even: Python's round() on the exact quotient
RoundHalfEven(n, d) ==
    LET q == n \div d
        r == n % d
    IN  IF 2 * r < d THEN q
        ELSE IF 2 * r > d THEN q + 1
        ELSE IF q % 2 = 0 THEN q ELSE q + 1

RECURSIVE SumSeq(_)
SumSeq(s) == IF s = <<>> THEN 0 ELSE Head(s) + SumSeq(Tail(s))

RECURSIVE MaxSeq(_)
MaxSeq(s) ==
    IF Len(s) = 1 THEN s[1]
    ELSE LET m == MaxSeq(Tail(s)) IN IF Head(s) >= m THEN Head(s) ELSE m

RECURSIVE MinSeq(_)
MinSeq(s) ==
    IF Len(s) = 1 THEN s[1]
    ELSE LET m == MinSeq(Tail(s)) IN IF Head(s) <= m THEN Head(s) ELSE m

----------------------------------------------------------------------------
(* Inputs of the tracker *)

\* the days on which the tracker is run
Days == {0, 29, MaxDay}

\* signals handed to add_signal_to_history: a CLUSTER signal carries
\* 'politicians' and no 'politician' or 'amount'; the others carry both
TrackerSignals ==
    { [signal_type |-> "CLUSTER", ticker |-> "NVDA",
       politicians |-> <<"Nancy Pelosi", "Dan Crenshaw">>],
      [signal_type |-> "LARGE_TRADE", ticker |-> "MSFT",
       politician |-> "Dan Crenshaw", amount |-> 75000] }

\* entry_price arguments: the default None, or $1000.00
EntryPrices == {None, 100000}

\* answers of get_stock_price: None (unavailable), $900.00, $1200.01,
\* $1250.00
PriceAnswers == {None, 90000, 120001, 125000}

----------------------------------------------------------------------------
(* PerformanceTracker *)

\* __init__ when history_file does not exist
EmptyHistory ==
    [tracked_signals |-> <<>>,
     politician_performance |-> <<>>,
     signal_type_performance |-> <<>>,
     ticker_performance |-> <<>>]

\* a history file left by earlier runs whose tracked signals were pruned:
\* its statistics name a politician, type and ticker no record carries
StaleHistory ==
    [tracked_signals |-> <<>>,
     politician_performance |->
        ("Old Member" :> [avg_return |-> 500, win_rate |-> 1000,
                          total_signals |-> 1, best_return |-> 500,
                          worst_return |-> 500]),
     signal_type_performance |->
        ("OPTIONS_TRADE" :> [avg_return |-> 500, win_rate |-> 1000,
                             total_signals |-> 1]),
     ticker_performance |->
        ("TSLA" :> [avg_return |-> 500, times_signaled |-> 1])]

\* add_signal_to_history: the tracking record
TrackingRecord(signal, entry_price, now) ==
    [signal_id |-> <<signal.ticker, Get(signal, "politician", "cluster"), now>>,
     ticker |-> signal.ticker,
     signal_type |-> signal.signal_type,
     politician |-> Get(signal, "politician",
                        Get(signal, "politicians", <<"Unknown">>)[1]),
     entry_date |-> now,
     entry_price |-> entry_price,
     amount |-> Get(signal, "amount", 0),
     status |-> "tracking",
     days_tracked |-> 0]

AddSignalToHistory(h, signal, entry_price, now) ==
    [h EXCEPT !.tracked_signals =
        Append(@, TrackingRecord(signal, entry_price, now))]

\* a loop that does not skip the records that are no longer 'tracking'
EligibleAnyStatus(signal) == Truthy(Get(signal, "entry_price", None))

\* update_tracked_signals: the signals the loop does not skip, the ones
\* get_stock_price is called for

Eligible(signal) ==
    /\ signal.status = "tracking"
    /\ Truthy(Get(signal, "entry_price", None))

\* round(((current_price - entry_price) / entry_price) * 100, 2)
ReturnPct(current_price, entry_price) ==
    RoundHalfEven((current_price - entry_price) * 10000, entry_price)

\* a closing test that wants both conditions
ShouldCloseAnd(days_tracked, current_price, entry_price) ==
    /\ days_tracked >= CloseDays
    /\ (current_price - entry_price) * 100 > ClosePct * entry_price

\* signal['days_tracked'] >= 30 or returns > 20, on the unrounded returns
ShouldClose(days_tracked, current_price, entry_price) ==
    \/ days_tracked >= CloseDays
    \/ (current_price - entry_price) * 100 > ClosePct * entry_price

\* an update that closes the record without writing its exit
PricedWithoutExit(signal, current_price, now) ==
    LET entry_price == signal.entry_price
        days == now - signal.entry_date
        updated == ("current_price" :> current_price)
                   @@ ("return_pct" :> ReturnPct(current_price, entry_price))
                   @@ ("days_tracked" :> days)
                   @@ signal
    IN  IF ShouldClose(days, current_price, entry_price)
        THEN ("status" :> "closed") @@ updated
        ELSE updated

\* the fields written when a price was obtained
Priced(signal, current_price, now) ==
    LET entry_price == signal.entry_price
        days == now - signal.entry_date
        updated == ("current_price" :> current_price)
                   @@ ("return_pct" :> ReturnPct(current_price, entry_price))
                   @@ ("days_tracked" :> days)
                   @@ signal
    IN  IF ShouldClose(days, current_price, entry_price)
        THEN ("status" :> "closed") @@ ("exit_date" :> now)
             @@ ("exit_price" :> current_price) @@ updated
        ELSE updated

\* a loop that closes an overdue record although no price was obtained
UnpricedCloses(signal, now) ==
    IF now - signal.entry_date >= CloseDays
    THEN ("status" :> "closed") @@ ("exit_date" :> now) @@ signal
    ELSE signal

\* what the loop does when get_stock_price returned nothing
Unpriced(signal, now) == signal

\* one iteration of the loop over tracked_signals
UpdateSignal(signal, current_price, now) ==
    IF ~Eligible(signal) THEN signal
    ELSE IF ~Truthy(current_price) THEN Unpriced(signal, now)
    ELSE Priced(signal, current_price, now)

\* the return_pct values of the records carrying one whose `field` is k
ReturnsOf(signals, field, k) ==
    LET sel == SelectSeq(signals,
                   LAMBDA s : "return_pct" \in DOMAIN s /\ s[field] = k)
    IN  [i \in 1..Len(sel) |-> sel[i].return_pct]

KeysOf(signals, field) ==
    { signals[i][field] :
        i \in { j \in 1..Len(signals) : "return_pct" \in DOMAIN signals[j] } }

Wins(returns) == Len(SelectSeq(returns, LAMBDA r : r > 0))

PoliticianStats(returns) ==
    [avg_return |-> RoundHalfEven(SumSeq(returns), Len(returns)),
     win_rate |-> RoundHalfEven(Wins(returns) * 1000, Len(returns)),
     total_signals |-> Len(returns),
     best_return |-> MaxSeq(returns),
     worst_return |-> MinSeq(returns)]

SignalTypeStats(returns) ==
    [avg_return |-> RoundHalfEven(SumSeq(returns), Len(returns)),
     win_rate |-> RoundHalfEven(Wins(returns) * 1000, Len(returns)),
     total_signals |-> Len(returns)]

TickerStats(returns) ==
    [avg_return |-> RoundHalfEven(SumSeq(returns), Len(returns)),
     times_signaled |-> Len(returns)]

\* a statistics mapping that is updated in place instead of being reset
MergedStats(old, fresh) ==
    [k \in DOMAIN old \cup DOMAIN fresh |->
        IF k \in DOMAIN fresh THEN fresh[k] ELSE old[k]]

CalculateAggregateStatsNoReset(h) ==
    LET sigs == h.tracked_signals
    IN  [h EXCEPT
          !.politician_performance = MergedStats(@,
              [k \in KeysOf(sigs, "politician") |->
                  PoliticianStats(ReturnsOf(sigs, "politician", k))]),
          !.signal_type_performance = MergedStats(@,
              [k \in KeysOf(sigs, "signal_type") |->
                  SignalTypeStats(ReturnsOf(sigs, "signal_type", k))]),
          !.ticker_performance = MergedStats(@,
              [k \in KeysOf(sigs, "ticker") |->
                  TickerStats(ReturnsOf(sigs, "ticker", k))])]

CalculateAggregateStats(h) ==
    LET sigs == h.tracked_signals
    IN  [h EXCEPT
          !.politician_performance =
              [k \in KeysOf(sigs, "politician") |->
                  PoliticianStats(ReturnsOf(sigs, "politician", k))],
          !.signal_type_performance =
              [k \in KeysOf(sigs, "signal_type") |->
                  SignalTypeStats(ReturnsOf(sigs, "signal_type", k))],
          !.ticker_performance =
              [k \in KeysOf(sigs, "ticker") |->
                  TickerStats(ReturnsOf(sigs, "ticker", k))]]

\* update_tracked_signals, given the answers of get_stock_price (quote[i]
\* for the i-th record), ending with calculate_aggregate_stats
UpdateHistory(h, quote, now) ==
    CalculateAggregateStats(
        [h EXCEPT !.tracked_signals =
            [i \in 1..Len(@) |-> UpdateSignal(@[i], quote[i], now)]])

\* the price answers an update can receive: get_stock_price is called only
\* for the records the loop does not skip
Quotes(h) ==
    { q \in [1..Len(h.tracked_signals) -> PriceAnswers] :
        \A i \in 1..Len(h.tracked_signals) :
            ~Eligible(h.tracked_signals[i]) => q[i] = None }

----------------------------------------------------------------------------
(* One tracker instance: add_signal_to_history and update_tracked_signals  *)
(* called in any order as the days pass.                                   *)

NoFile == [missing |-> TRUE]
Runs == {"A", "B"}

\* the scanner before any scan
ScanIdle ==
    /\ cluster_threshold = 3
    /\ min_trade_size = 100000
    /\ use_sample_data = FALSE
    /\ provided = <<>>
    /\ trades = <<>>
    /\ unique_trades = <<>>
    /\ clusters = <<>>
    /\ large_trades = <<>>
    /\ top_performer_trades = <<>>
    /\ committee_aligned = <<>>
    /\ unusual_activity = <<>>
    /\ results = <<>>
    /\ scanned = FALSE

\* parse_amount before any call
ParseIdle ==
    /\ amount_str = [kind |-> "none", chars |-> <<>>, val |-> 0]
    /\ parsed = [outcome |-> "pending", value |-> 0]

\* the normalizer before any fetch
FetchIdle ==
    /\ response = [house |-> "ok", senate |-> "ok"]
    /\ data = [house |-> <<>>, senate |-> <<>>]
    /\ normalized = <<>>
    /\ fetched = {}

\* DanMeuserStrategy before its run
MirrorIdle ==
    /\ meuser_trades = <<>>
    /\ meuser_portfolio = <<>>
    /\ meuser_signals = <<>>
    /\ meuser_pc = "start"

\* CongressBuysStrategy before its run
BuysIdle ==
    /\ purchases = <<>>
    /\ buys_portfolio = <<>>
    /\ buys_signals = <<>>
    /\ buys_pc = "start"

\* main() of both strategies sizes the signals for 10000 dollars
ValueIdle == your_portfolio_value = 10000

NoAlert ==
    [op |-> "none", signals |-> <<>>, max_signals |-> 0,
     recent_activity |-> <<>>]

AlertIdle ==
    /\ enabled = FALSE
    /\ answers = <<>>
    /\ alert_op = NoAlert
    /\ posted = <<>>
    /\ sent_count = 0

NoPipeline ==
    [alerter |-> FALSE, runs |-> 0, outcome |-> "none", marked |-> <<>>]

PipelineIdle == pipeline = NoPipeline

StrategyIdle ==
    /\ ParseIdle /\ FetchIdle /\ MirrorIdle /\ BuysIdle /\ ValueIdle
    /\ AlertIdle /\ PipelineIdle

RunInit ==
    /\ disk = NoFile
    /\ mem = [r \in Runs |-> EmptyHistory]
    /\ pc = [r \in Runs |-> "idle"]
    /\ launches = 0
    /\ lastSaver = "none"
    /\ wasClosed = {}

Init ==
    /\ history \in {EmptyHistory, StaleHistory}
    /\ today = 0
    /\ lastOp = [op |-> "init"]
    /\ RunInit
    /\ ScanIdle
    /\ StrategyIdle

AddSignal ==
    /\ Len(history.tracked_signals) < MaxTracked
    /\ \E signal \in TrackerSignals, entry_price \in EntryPrices :
          history' = AddSignalToHistory(history, signal, entry_price, today)
    /\ lastOp' = [op |-> "add"]
    /\ UNCHANGED <<today, runVars, configVars, strategyVars, scanVars>>

UpdateTrackedSignals ==
    /\ \E quote \in Quotes(history) :
          /\ history' = UpdateHistory(history, quote, today)
          /\ lastOp' = [op |-> "update", quote |-> quote]
    /\ UNCHANGED <<today, runVars, configVars, strategyVars, scanVars>>

Tick ==
    /\ \E d \in Days : d > today /\ today' = d
    /\ lastOp' = [op |-> "tick"]
    /\ UNCHANGED <<history, runVars, configVars, strategyVars, scanVars>>

Next == AddSignal \/ UpdateTrackedSignals \/ Tick

Spec == Init /\ [][Next]_vars

----------------------------------------------------------------------------
(* Overlapping tracker runs on one history file.  A run constructs a       *)
(* PerformanceTracker (reading the file), adds and updates signals in      *)
(* memory, and ends with save_history.  Nothing orders two runs.           *)

\* a save that keeps what the file holds for records the run did not load
WriteFileMerged(old, h) ==
    IF old = NoFile \/ Len(old.tracked_signals) <= Len(h.tracked_signals)
    THEN h
    ELSE [h EXCEPT !.tracked_signals =
            @ \o SubSeq(old.tracked_signals, Len(@) + 1,
                        Len(old.tracked_signals))]

\* save_history: open(history_file, 'w') and json.dump of the whole history.
\* The history holds only strings, numbers, None, lists and string-keyed
\* dicts, which json.dump and json.load carry over unchanged.
WriteFile(old, h) == h

\* __init__: json.load of the file, or the empty history when it is missing
LoadFile(file) == IF file = NoFile THEN EmptyHistory ELSE file

\* history: the records a save moves from 'tracking' to 'closed' in the file
ClosedBySave(old, new) ==
    IF old = NoFile THEN {}
    ELSE { <<i, new.tracked_signals[i].signal_id>> :
             i \in { j \in 1..Len(new.tracked_signals) :
                       /\ j <= Len(old.tracked_signals)
                       /\ old.tracked_signals[j].signal_id
                             = new.tracked_signals[j].signal_id
                       /\ old.tracked_signals[j].status = "tracking"
                       /\ new.tracked_signals[j].status = "closed" } }

\* the price answers of the overlapping runs: unavailable, or $1250.00
RunPriceAnswers == {None, 125000}

InitRuns ==
    /\ history = EmptyHistory
    /\ today = 0
    /\ lastOp = [op |-> "init"]
    /\ RunInit
    /\ ScanIdle
    /\ StrategyIdle

Launch(r) ==
    /\ pc[r] \in {"idle", "done"}
    /\ launches < MaxLaunches
    /\ launches' = launches + 1
    /\ mem' = [mem EXCEPT ![r] = LoadFile(disk)]
    /\ pc' = [pc EXCEPT ![r] = "loaded"]
    /\ UNCHANGED <<disk, lastSaver, wasClosed, trackerVars, configVars,
                   strategyVars, scanVars>>

RunAdd(r) ==
    /\ pc[r] = "loaded"
    /\ Len(mem[r].tracked_signals) < MaxRunTracked
    /\ \E signal \in TrackerSignals, entry_price \in EntryPrices \ {None} :
          mem' = [mem EXCEPT
                    ![r] = AddSignalToHistory(@, signal, entry_price, today)]
    /\ UNCHANGED <<disk, pc, launches, lastSaver, wasClosed, trackerVars,
                   configVars, strategyVars, scanVars>>

RunUpdate(r) ==
    /\ pc[r] = "loaded"
    /\ \E quote \in Quotes(mem[r]) :
          /\ \A i \in DOMAIN quote : quote[i] \in RunPriceAnswers
          /\ mem' = [mem EXCEPT ![r] = UpdateHistory(@, quote, today)]
    /\ UNCHANGED <<disk, pc, launches, lastSaver, wasClosed, trackerVars,
                   configVars, strategyVars, scanVars>>

RunSave(r) ==
    /\ pc[r] = "loaded"
    /\ disk' = WriteFile(disk, mem[r])
    /\ pc' = [pc EXCEPT ![r] = "done"]
    /\ lastSaver' = r
    /\ wasClosed' = wasClosed \cup ClosedBySave(disk, disk')
    /\ UNCHANGED <<mem, launches, trackerVars, configVars,
                   strategyVars, scanVars>>

NextRuns == \E r \in Runs : Launch(r) \/ RunAdd(r) \/ RunUpdate(r) \/ RunSave(r)

SpecRuns == InitRuns /\ [][NextRuns]_vars

----------------------------------------------------------------------------
(* Properties of the tracker, under Spec *)

Tracked == history.tracked_signals
Updating == lastOp'.op = "update"

\* C1: a record with status 'closed' is never changed again: no later
\* operation (update_tracked_signals in particular, whatever the prices)
\* sets its status back to 'tracking' or touches any of its fields.
C1_ClosedIsTerminal ==
    [][\A i \in 1..Len(Tracked) :
          Tracked[i].status = "closed" =>
             /\ i <= Len(history'.tracked_signals)
             /\ history'.tracked_signals[i] = Tracked[i]]_vars

\* C1 witness: an update has run on a later day than the day a record was
\* closed.
C1_Witness ==
    /\ lastOp.op = "update"
    /\ \E i \in 1..Len(Tracked) :
          /\ Tracked[i].status = "closed"
          /\ Tracked[i].exit_date < today

\* the return a price answer gives exceeds 20%
ReturnExceeds(signal, price) ==
    /\ Truthy(Get(signal, "entry_price", None))
    /\ Truthy(price)
    /\ (price - signal.entry_price) * 100 > ClosePct * signal.entry_price

\* C2 as stated: every 'tracking' record whose entry_date is at least 30
\* days back is 'closed' at the end of the next update, and so is every
\* 'tracking' record whose return exceeds 20%.
C2_Original ==
    [][Updating =>
         \A i \in 1..Len(Tracked) :
            /\ Tracked[i].status = "tracking"
            /\ \/ today - Tracked[i].entry_date >= CloseDays
               \/ ReturnExceeds(Tracked[i], lastOp'.quote[i])
            => history'.tracked_signals[i].status = "closed"]_vars

\* C2 amended: a 'tracking' record that has an entry price and for which
\* the update obtains a price is 'closed' at the end of that update when
\* its entry_date is at least 30 days back (whatever the sign of its
\* return) or when its return exceeds 20% (however short it was held).
C2_ClosesWhenPriced ==
    [][Updating =>
         \A i \in 1..Len(Tracked) :
            /\ Tracked[i].status = "tracking"
            /\ Truthy(Get(Tracked[i], "entry_price", None))
            /\ Truthy(lastOp'.quote[i])
            /\ \/ today - Tracked[i].entry_date >= CloseDays
               \/ ReturnExceeds(Tracked[i], lastOp'.quote[i])
            => history'.tracked_signals[i].status = "closed"]_vars

\* C2 witness: one update closed a record held 30 days or more at a loss
\* and a record held under 30 days with a return of 25%.
C2_Witness ==
    /\ lastOp.op = "update"
    /\ \E i, j \in 1..Len(Tracked) :
          /\ Tracked[i].status = "closed" /\ Tracked[i].exit_date = today
          /\ Tracked[i].days_tracked >= CloseDays
          /\ Tracked[i].return_pct < 0
          /\ Tracked[j].status = "closed" /\ Tracked[j].exit_date = today
          /\ Tracked[j].days_tracked < CloseDays
          /\ Tracked[j].return_pct = 2500

\* C3 as stated: a record the update moves from 'tracking' to 'closed' has
\* days_tracked >= 30 or a stored return_pct > 20 afterwards, and a record
\* with days_tracked < 30 and return_pct <= 20 stays 'tracking'.
C3_ClosedOnStoredFields ==
    [][Updating =>
         \A i \in 1..Len(Tracked) :
            LET after == history'.tracked_signals[i]
            IN  /\ Tracked[i].status = "tracking" /\ after.status = "closed"
                   => \/ after.days_tracked >= CloseDays
                      \/ after.return_pct > ClosePct * 100
                /\ /\ Tracked[i].status = "tracking"
                   /\ "return_pct" \in DOMAIN after
                   /\ after.days_tracked < CloseDays
                   /\ after.return_pct <= ClosePct * 100
                   => after.status = "tracking"]_vars

\* C4: when get_stock_price returns nothing for a 'tracking' record, the
\* update leaves every field of that record as it was, so the record is
\* still 'tracking' and is examined again by the next update.
C4_UnavailableIsNoOp ==
    [][Updating =>
         \A i \in 1..Len(Tracked) :
            Tracked[i].status = "tracking" /\ lastOp'.quote[i] = None
            => history'.tracked_signals[i] = Tracked[i]]_vars

\* C4 witness: an update got no price for a record with an entry price that
\* was due for closing, and the record is still 'tracking'.
C4_Witness ==
    /\ lastOp.op = "update"
    /\ \E i \in 1..Len(Tracked) :
          /\ lastOp.quote[i] = None
          /\ Tracked[i].status = "tracking"
          /\ Tracked[i].entry_price = 100000
          /\ today - Tracked[i].entry_date >= CloseDays

Carriers == { i \in 1..Len(Tracked) : "return_pct" \in DOMAIN Tracked[i] }
CountWith(field, k) == Cardinality({ i \in Carriers : Tracked[i][field] = k })

\* C5: after every update the three statistics mappings hold exactly the
\* politicians, signal types and tickers of the records that carry a
\* return_pct, each with the number of such records as its count; nothing
\* else loaded from the file survives.
C5_StatsRebuilt ==
    lastOp.op = "update" =>
       /\ DOMAIN history.politician_performance
             = { Tracked[i].politician : i \in Carriers }
       /\ DOMAIN history.signal_type_performance
             = { Tracked[i].signal_type : i \in Carriers }
       /\ DOMAIN history.ticker_performance
             = { Tracked[i].ticker : i \in Carriers }
       /\ \A k \in DOMAIN history.politician_performance :
             history.politician_performance[k].total_signals
                = CountWith("politician", k)
       /\ \A k \in DOMAIN history.signal_type_performance :
             history.signal_type_performance[k].total_signals
                = CountWith("signal_type", k)
       /\ \A k \in DOMAIN history.ticker_performance :
             history.ticker_performance[k].times_signaled
                = CountWith("ticker", k)

\* C5 witness: after an update, of two records with the same politician,
\* signal type and ticker one carries a return_pct and the other does not,
\* so each count is 1 of 2.
C5_Witness ==
    /\ lastOp.op = "update"
    /\ \E i, k \in 1..Len(Tracked) :
          /\ i \in Carriers /\ k \notin Carriers
          /\ Tracked[i].ticker = Tracked[k].ticker
          /\ Tracked[i].politician = Tracked[k].politician
          /\ Tracked[k].status = "tracking"

----------------------------------------------------------------------------
(* Properties of overlapping runs, under SpecRuns *)

\* C6: the file is what the run that saved last held in memory: once that
\* run has ended, the file equals its history, whatever another run saved
\* before it.
C6_LastWriterWins ==
    \A r \in Runs :
       lastSaver = r /\ pc[r] = "done" => disk = mem[r]

\* C6 witness: both runs have ended and a record that one run's save moved
\* from 'tracking' to 'closed' in the file is 'tracking' in the file again.
C6_Witness ==
    /\ \A r \in Runs : pc[r] = "done"
    /\ disk # NoFile
    /\ \E i \in 1..Len(disk.tracked_signals) :
          /\ <<i, disk.tracked_signals[i].signal_id>> \in wasClosed
          /\ disk.tracked_signals[i].status = "tracking"

----------------------------------------------------------------------------
(* CongressionalTradingScanner.  Strings are atomic values; Chars gives    *)
(* the characters of those the scanner looks into.                         *)

\* str.lower(), one character
LowerChar(c) ==
    CASE c = "A" -> "a"
      [] c = "B" -> "b"
      [] c = "C" -> "c"
      [] c = "D" -> "d"
      [] c = "E" -> "e"
      [] c = "F" -> "f"
      [] c = "G" -> "g"
      [] c = "H" -> "h"
      [] c = "I" -> "i"
      [] c = "J" -> "j"
      [] c = "K" -> "k"
      [] c = "L" -> "l"
      [] c = "M" -> "m"
      [] c = "N" -> "n"
      [] c = "O" -> "o"
      [] c = "P" -> "p"
      [] c = "Q" -> "q"
      [] c = "R" -> "r"
      [] c = "S" -> "s"
      [] c = "T" -> "t"
      [] c = "U" -> "u"
      [] c = "V" -> "v"
      [] c = "W" -> "w"
      [] c = "X" -> "x"
      [] c = "Y" -> "y"
      [] c = "Z" -> "z"
      [] OTHER -> c

\* the characters of the strings the scanner meets
Chars(str) ==
    CASE str = "Nancy Pelosi" ->
           <<"N", "a", "n", "c", "y", " ", "P", "e", "l", "o", "s",
           "i">>
      [] str = "Dan Crenshaw" ->
           <<"D", "a", "n", " ", "C", "r", "e", "n", "s", "h", "a",
           "w">>
      [] str = "Josh Gottheimer" ->
           <<"J", "o", "s", "h", " ", "G", "o", "t", "t", "h", "e", "i",
           "m", "e", "r">>
      [] str = "Tommy Tuberville" ->
           <<"T", "o", "m", "m", "y", " ", "T", "u", "b", "e", "r", "v",
           "i", "l", "l", "e">>
      [] str = "Dan Meuser" ->
           <<"D", "a", "n", " ", "M", "e", "u", "s", "e", "r">>
      [] str = "Jim Banks" ->
           <<"J", "i", "m", " ", "B", "a", "n", "k", "s">>
      [] str = "Paul Pelosi" ->
           <<"P", "a", "u", "l", " ", "P", "e", "l", "o", "s", "i">>
      [] str = "Marjorie Taylor Greene" ->
           <<"M", "a", "r", "j", "o", "r", "i", "e", " ", "T", "a", "y",
           "l", "o", "r", " ", "G", "r", "e", "e", "n", "e">>
      [] str = "John Doe" ->
           <<"J", "o", "h", "n", " ", "D", "o", "e">>
      [] str = "NVIDIA Corporation (NVDA)" ->
           <<"N", "V", "I", "D", "I", "A", " ", "C", "o", "r", "p", "o",
           "r", "a", "t", "i", "o", "n", " ", "(", "N", "V", "D", "A",
           ")">>
      [] str = "Microsoft Corporation (MSFT)" ->
           <<"M", "i", "c", "r", "o", "s", "o", "f", "t", " ", "C", "o",
           "r", "p", "o", "r", "a", "t", "i", "o", "n", " ", "(", "M",
           "S", "F", "T", ")">>
      [] str = "Lockheed Martin Corporation (LMT)" ->
           <<"L", "o", "c", "k", "h", "e", "e", "d", " ", "M", "a", "r",
           "t", "i", "n", " ", "C", "o", "r", "p", "o", "r", "a", "t",
           "i", "o", "n", " ", "(", "L", "M", "T", ")">>
      [] str = "Alphabet Inc Class A (GOOGL)" ->
           <<"A", "l", "p", "h", "a", "b", "e", "t", " ", "I", "n", "c",
           " ", "C", "l", "a", "s", "s", " ", "A", " ", "(", "G", "O",
           "O", "G", "L", ")">>
      [] str = "Tesla Inc Call Options (TSLA)" ->
           <<"T", "e", "s", "l", "a", " ", "I", "n", "c", " ", "C", "a",
           "l", "l", " ", "O", "p", "t", "i", "o", "n", "s", " ", "(",
           "T", "S", "L", "A", ")">>
      [] str = "Apple Inc (AAPL)" ->
           <<"A", "p", "p", "l", "e", " ", "I", "n", "c", " ", "(", "A",
           "A", "P", "L", ")">>
      [] str = "Pelosi" ->
           <<"P", "e", "l", "o", "s", "i">>
      [] str = "Tuberville" ->
           <<"T", "u", "b", "e", "r", "v", "i", "l", "l", "e">>
      [] str = "option" ->
           <<"o", "p", "t", "i", "o", "n">>
      [] str = "call" ->
           <<"c", "a", "l", "l">>
      [] str = "put" ->
           <<"p", "u", "t">>
      [] str = "NVDA" ->
           <<"N", "V", "D", "A">>
      [] str = "TSLA" ->
           <<"T", "S", "L", "A">>
      [] str = "--" ->
           <<"-", "-">>
      [] str = "nvda" ->
           <<"n", "v", "d", "a">>
      [] str = "US Treasury Bill" ->
           <<"U", "S", " ", "T", "r", "e", "a", "s", "u", "r", "y", " ", "B",
           "i", "l", "l">>
      [] str = "Growth Fund (the)" ->
           <<"G", "r", "o", "w", "t", "h", " ", "F", "u", "n", "d", " ", "(",
           "t", "h", "e", ")">>
      [] str = "Holding Corp (ABCDEF)" ->
           <<"H", "o", "l", "d", "i", "n", "g", " ", "C", "o", "r", "p", " ",
           "(", "A", "B", "C", "D", "E", "F", ")">>
      [] str = "Purchase" ->
           <<"P", "u", "r", "c", "h", "a", "s", "e">>
      [] str = "Sale (Full)" ->
           <<"S", "a", "l", "e", " ", "(", "F", "u", "l", "l", ")">>
      [] str = "Exchange" ->
           <<"E", "x", "c", "h", "a", "n", "g", "e">>
      [] str = "purchase" ->
           <<"p", "u", "r", "c", "h", "a", "s", "e">>
      [] str = "buy" ->
           <<"b", "u", "y">>
      [] str = "sale" ->
           <<"s", "a", "l", "e">>
      [] str = "sell" ->
           <<"s", "e", "l", "l">>

Lower(chars) == [i \in 1..Len(chars) |-> LowerChar(chars[i])]

\* sub in text, on character sequences
Contains(sub, text) ==
    \E i \in 0..(Len(text) - Len(sub)) : SubSeq(text, i + 1, i + Len(sub)) = sub

\* the configuration read by __init__: the watch-list and the committees,
\* in the order of the configuration file
top_performers == <<"Pelosi", "Nancy Pelosi", "Tuberville">>

committee_alignments ==
    << <<"Armed Services", {"LMT", "RTX"}>>,
       <<"Technology", {"NVDA", "MSFT"}>>,
       <<"Intelligence", {"NVDA", "LMT"}>> >>

ClusterThresholds == {2, 3}
MinTradeSizes == {75000, 150000}

Trade(ticker, date, representative, type, amount, party, desc, source) ==
    [ticker |-> ticker, transaction_date |-> date,
     representative |-> representative, transaction_type |-> type,
     amount |-> amount, party |-> party, asset_description |-> desc,
     source |-> source]

\* get_sample_data; dates are days relative to today
SampleData(now) ==
    << Trade("NVDA", now - 2, "Nancy Pelosi", "purchase", 250000,
             "Democrat", "NVIDIA Corporation (NVDA)", "sample"),
       Trade("NVDA", now - 3, "Dan Crenshaw", "purchase", 75000,
             "Republican", "NVIDIA Corporation (NVDA)", "sample"),
       Trade("NVDA", now - 1, "Josh Gottheimer", "purchase", 150000,
             "Democrat", "NVIDIA Corporation (NVDA)", "sample"),
       Trade("MSFT", now - 1, "Tommy Tuberville", "purchase", 450000,
             "Republican", "Microsoft Corporation (MSFT)", "sample"),
       Trade("LMT", now - 4, "Jim Banks", "purchase", 125000,
             "Republican", "Lockheed Martin Corporation (LMT)", "sample"),
       Trade("GOOGL", now - 2, "Paul Pelosi", "purchase", 300000,
             "Democrat", "Alphabet Inc Class A (GOOGL)", "sample"),
       Trade("TSLA", now - 1, "Marjorie Taylor Greene", "purchase", 80000,
             "Republican", "Tesla Inc Call Options (TSLA)", "sample"),
       Trade("AAPL", now - 5, "John Doe", "sale", 100000,
             "Republican", "Apple Inc (AAPL)", "sample") >>

\* records fetch_from_apis can return: the same disclosure from both
\* providers, one politician buying a ticker on two days, a sale, a trade of
\* unknown type, an options trade
HouseTrades ==
    { Trade("NVDA", -2, "Nancy Pelosi", "purchase", 250000, "Democrat",
            "NVIDIA Corporation (NVDA)", "house_stock_watcher"),
      Trade("NVDA", -2, "Dan Crenshaw", "purchase", 75000, "Republican",
            "NVIDIA Corporation (NVDA)", "house_stock_watcher"),
      Trade("NVDA", -1, "Nancy Pelosi", "purchase", 8001, "Democrat",
            "NVIDIA Corporation (NVDA)", "house_stock_watcher"),
      Trade("LMT", -2, "Jim Banks", "unknown", 8000, "Republican",
            "Lockheed Martin Corporation (LMT)", "house_stock_watcher") }

SenateTrades ==
    { Trade("NVDA", -2, "Nancy Pelosi", "purchase", 15000, "Democrat",
            "NVIDIA Corporation (NVDA)", "senate_stock_watcher"),
      Trade("NVDA", -1, "Josh Gottheimer", "sale", 150000, "Democrat",
            "NVIDIA Corporation (NVDA)", "senate_stock_watcher"),
      Trade("TSLA", -1, "Marjorie Taylor Greene", "purchase", 80000,
            "Republican", "Tesla Inc Call Options (TSLA)",
            "senate_stock_watcher") }

\* the lists fetch_from_apis can return: House records, then Senate records
ProvidedLists ==
    { l \in UNION { [1..n -> HouseTrades \cup SenateTrades] : n \in 0..MaxTrades } :
        \A i, j \in 1..Len(l) :
            i < j /\ l[i] \in SenateTrades => l[j] \in SenateTrades }

\* fetch_all_trades: a key that leaves the date out
TradeKeyNoDate(trade) == <<trade.ticker, trade.representative>>

\* fetch_all_trades: the key of the `seen` set
TradeKey(trade) ==
    <<trade.ticker, trade.representative, trade.transaction_date>>

\* fetch_all_trades: the loop over trades with its `seen` set
RECURSIVE DedupFrom(_, _, _)
DedupFrom(list, seen, unique) ==
    IF list = <<>> THEN unique
    ELSE LET key == TradeKey(Head(list))
         IN  IF key \notin seen
             THEN DedupFrom(Tail(list), seen \cup {key}, Append(unique, Head(list)))
             ELSE DedupFrom(Tail(list), seen, unique)

Dedup(list) == DedupFrom(list, {}, <<>>)

\* fetch_all_trades before the loop: sample data when asked for, or when
\* the providers gave nothing
FetchedTrades(sample, fromApis, now) ==
    IF sample THEN SampleData(now)
    ELSE IF fromApis = <<>> THEN SampleData(now) ELSE fromApis

\* detect_clusters: the keys of ticker_purchases in insertion order
RECURSIVE PurchaseTickers(_, _)
PurchaseTickers(list, found) ==
    IF list = <<>> THEN found
    ELSE LET t == Head(list)
         IN  IF t.transaction_type = "purchase"
                /\ \A i \in 1..Len(found) : found[i] # t.ticker
             THEN PurchaseTickers(Tail(list), Append(found, t.ticker))
             ELSE PurchaseTickers(Tail(list), found)

\* a grouping that does not look at the transaction type
TickerPurchasesAnyType(list, ticker) ==
    SelectSeq(list, LAMBDA t : t.ticker = ticker)

\* detect_clusters: ticker_purchases[ticker]
TickerPurchases(list, ticker) ==
    SelectSeq(list, LAMBDA t : t.transaction_type = "purchase" /\ t.ticker = ticker)

ClusterSignal(ticker, ticker_trades) ==
    LET amounts == [i \in 1..Len(ticker_trades) |-> ticker_trades[i].amount]
    IN  [signal_type |-> "CLUSTER",
         ticker |-> ticker,
         count |-> Len(ticker_trades),
         politicians |-> [i \in 1..Len(ticker_trades) |->
                             ticker_trades[i].representative],
         total_amount |-> SumSeq(amounts),
         avg_amount |-> SumSeq(amounts) \div Len(ticker_trades),
         dates |-> [i \in 1..Len(ticker_trades) |->
                       ticker_trades[i].transaction_date],
         trades |-> ticker_trades,
         priority |-> 1]

RECURSIVE ClustersOf(_, _, _)
ClustersOf(tickers, list, threshold) ==
    IF tickers = <<>> THEN <<>>
    ELSE LET ticker_trades == TickerPurchases(list, Head(tickers))
             rest == ClustersOf(Tail(tickers), list, threshold)
         IN  IF Len(ticker_trades) >= threshold
             THEN <<ClusterSignal(Head(tickers), ticker_trades)>> \o rest
             ELSE rest

DetectClusters(list, threshold) ==
    ClustersOf(PurchaseTickers(list, <<>>), list, threshold)

\* a floor that a trade must exceed
IsLargeStrict(trade, floor) == trade.amount > floor

\* detect_large_trades: the test of one trade
IsLarge(trade, floor) == trade.amount >= floor

TradeSignal(type, trade, priority) ==
    [signal_type |-> type,
     ticker |-> trade.ticker,
     politician |-> trade.representative,
     amount |-> trade.amount,
     transaction_type |-> trade.transaction_type,
     date |-> trade.transaction_date,
     trade |-> trade,
     priority |-> priority]

DetectLargeTrades(list, floor) ==
    LET large == SelectSeq(list, LAMBDA t : IsLarge(t, floor))
    IN  [i \in 1..Len(large) |-> TradeSignal("LARGE_TRADE", large[i], 4)]

\* a watch-list search that keeps the last entry it finds
MatchingPerformersLast(trade) ==
    LET m == SelectSeq(top_performers,
                 LAMBDA p : Contains(Lower(Chars(p)),
                                     Lower(Chars(trade.representative))))
    IN  [i \in 1..Len(m) |-> m[Len(m) + 1 - i]]

\* detect_top_performer_trades: the watch-list entries the name contains,
\* in watch-list order
MatchingPerformers(trade) ==
    SelectSeq(top_performers,
        LAMBDA p : Contains(Lower(Chars(p)), Lower(Chars(trade.representative))))

RECURSIVE DetectTopPerformerTrades(_)
DetectTopPerformerTrades(list) ==
    IF list = <<>> THEN <<>>
    ELSE LET m == MatchingPerformers(Head(list))
             rest == DetectTopPerformerTrades(Tail(list))
         IN  IF m # <<>>
             THEN << ("performer_name" :> m[1])
                     @@ TradeSignal("TOP_PERFORMER", Head(list), 3) >> \o rest
             ELSE rest

\* a committee search that stops at the first committee it finds
CommitteeSignalsFirst(trade) ==
    LET hits == SelectSeq(committee_alignments, LAMBDA c : trade.ticker \in c[2])
    IN  IF hits = <<>> THEN <<>>
        ELSE << ("committee" :> hits[1][1])
                @@ TradeSignal("COMMITTEE_ALIGNED", trade, 5) >>

\* detect_committee_aligned_trades: the signals of one trade, one per
\* committee whose tickers hold the trade's ticker
CommitteeSignals(trade) ==
    LET hits == SelectSeq(committee_alignments, LAMBDA c : trade.ticker \in c[2])
    IN  [i \in 1..Len(hits) |->
            ("committee" :> hits[i][1])
            @@ [signal_type |-> "COMMITTEE_ALIGNED",
                ticker |-> trade.ticker,
                politician |-> trade.representative,
                amount |-> trade.amount,
                transaction_type |-> trade.transaction_type,
                date |-> trade.transaction_date,
                trade |-> trade,
                priority |-> 5]]

RECURSIVE DetectCommitteeAlignedTrades(_)
DetectCommitteeAlignedTrades(list) ==
    IF list = <<>> THEN <<>>
    ELSE CommitteeSignals(Head(list)) \o DetectCommitteeAlignedTrades(Tail(list))

\* detect_unusual_activity: the test of one trade
IsOptions(trade) ==
    LET asset_desc == Lower(Chars(trade.asset_description))
    IN  \/ Contains(Chars("option"), asset_desc)
        \/ Contains(Chars("call"), asset_desc)
        \/ Contains(Chars("put"), asset_desc)

DetectUnusualActivity(list) ==
    LET opts == SelectSeq(list, IsOptions)
    IN  [i \in 1..Len(opts) |->
            ("reason" :> "Options trade detected")
            @@ TradeSignal("OPTIONS_TRADE", opts[i], 2)]

\* list.sort(key=lambda x: x.get('priority', 99)): a stable sort.  Insert
\* puts x behind every element whose key is not larger.
RECURSIVE InsertByPriority(_, _)
InsertByPriority(x, sorted) ==
    IF sorted = <<>> THEN <<x>>
    ELSE IF Get(Head(sorted), "priority", 99) <= Get(x, "priority", 99)
         THEN <<Head(sorted)>> \o InsertByPriority(x, Tail(sorted))
         ELSE <<x>> \o sorted

RECURSIVE SortFrom(_, _)
SortFrom(list, sorted) ==
    IF list = <<>> THEN sorted
    ELSE SortFrom(Tail(list), InsertByPriority(Head(list), sorted))

\* an aggregation that forgets to sort
SortByPriorityMissing(list) == list

SortByPriority(list) == SortFrom(list, <<>>)

\* scan_for_signals: the concatenation, in the order of the source
AllSignals(c, l, t, a, u) == c \o l \o t \o a \o u

\* scan_for_signals: the returned dict (scan_timestamp left out)
ScanResults(signals, all_trades, sample) ==
    IF all_trades = <<>>
    THEN [signals |-> <<>>, all_trades |-> <<>>]
    ELSE [signals |-> signals, all_trades |-> all_trades,
          mode |-> IF sample THEN "sample" ELSE "live"]

InitScan ==
    /\ history = EmptyHistory
    /\ today = 0
    /\ lastOp = [op |-> "init"]
    /\ RunInit
    /\ StrategyIdle
    /\ cluster_threshold \in ClusterThresholds
    /\ min_trade_size \in MinTradeSizes
    /\ use_sample_data \in BOOLEAN
    /\ provided \in ProvidedLists
    /\ use_sample_data => provided = <<>>
    /\ trades = <<>>
    /\ unique_trades = <<>>
    /\ clusters = <<>>
    /\ large_trades = <<>>
    /\ top_performer_trades = <<>>
    /\ committee_aligned = <<>>
    /\ unusual_activity = <<>>
    /\ results = <<>>
    /\ scanned = FALSE

\* scan_for_signals, from fetch_all_trades to the returned dict
ScanForSignals ==
    /\ ~scanned
    /\ scanned' = TRUE
    /\ trades' = FetchedTrades(use_sample_data, provided, today)
    /\ unique_trades' = Dedup(trades')
    /\ clusters' = DetectClusters(unique_trades', cluster_threshold)
    /\ large_trades' = DetectLargeTrades(unique_trades', min_trade_size)
    /\ top_performer_trades' = DetectTopPerformerTrades(unique_trades')
    /\ committee_aligned' = DetectCommitteeAlignedTrades(unique_trades')
    /\ unusual_activity' = DetectUnusualActivity(unique_trades')
    /\ results' = ScanResults(
                     SortByPriority(AllSignals(clusters', large_trades',
                         top_performer_trades', committee_aligned',
                         unusual_activity')),
                     unique_trades', use_sample_data)
    /\ UNCHANGED <<trackerVars, runVars, configVars, strategyVars>>

NextScan == ScanForSignals

SpecScan == InitScan /\ [][NextScan]_vars

----------------------------------------------------------------------------
(* Properties of a scan, under SpecScan *)

\* the position of index i among the indices of S, in increasing order
RankIn(S, i) == Cardinality({ j \in S : j <= i })

RECURSIVE SumOver(_, _)
SumOver(S, f) ==
    IF S = {} THEN 0
    ELSE LET i == CHOOSE x \in S : TRUE IN f[i] + SumOver(S \ {i}, f)

SameTriple(a, b) ==
    /\ a.ticker = b.ticker
    /\ a.representative = b.representative
    /\ a.transaction_date = b.transaction_date

\* the positions in trades of the first record of each triple
FirstSeen ==
    { i \in 1..Len(trades) :
        \A j \in 1..(i - 1) : ~SameTriple(trades[j], trades[i]) }

\* C7: the deduplicated list is the subsequence of the first occurrences of
\* each (ticker, representative, transaction_date) triple, in input order:
\* one record per triple, never longer than the input.
C7_DedupFirstSeen ==
    scanned =>
       /\ Len(unique_trades) = Cardinality(FirstSeen)
       /\ Len(unique_trades) <= Len(trades)
       /\ \A i \in FirstSeen : unique_trades[RankIn(FirstSeen, i)] = trades[i]
       /\ \A i, j \in 1..Len(unique_trades) :
             i # j => ~SameTriple(unique_trades[i], unique_trades[j])

\* C7 witness: the input holds the same triple from two sources, followed by
\* a record of another triple, and the output keeps the first and the last.
C7_Witness ==
    /\ scanned
    /\ Len(trades) = 3 /\ Len(unique_trades) = 2
    /\ SameTriple(trades[1], trades[2])
    /\ trades[1].source # trades[2].source
    /\ unique_trades = <<trades[1], trades[3]>>

Signals == results.signals
Concatenated ==
    clusters \o large_trades \o top_performer_trades \o committee_aligned
    \o unusual_activity

Occurrences(list, x) == Cardinality({ i \in 1..Len(list) : list[i] = x })

FixedPriority(type) ==
    CASE type = "CLUSTER" -> 1
      [] type = "OPTIONS_TRADE" -> 2
      [] type = "TOP_PERFORMER" -> 3
      [] type = "LARGE_TRADE" -> 4
      [] type = "COMMITTEE_ALIGNED" -> 5

\* C8: the returned signal list is a permutation of the concatenated
\* detector outputs, in ascending priority with the fixed priority of each
\* signal type, and signals of equal priority are in the order their
\* detector emitted them; these fix the order completely, so aggregating
\* the same outputs again gives the same list.
C8_AggregationOrder ==
    scanned =>
       /\ Len(Signals) = Len(Concatenated)
       /\ \A i \in 1..Len(Concatenated) :
             Occurrences(Signals, Concatenated[i])
                = Occurrences(Concatenated, Concatenated[i])
       /\ \A i \in 1..Len(Signals) :
             Signals[i].priority = FixedPriority(Signals[i].signal_type)
       /\ \A i, j \in 1..Len(Signals) :
             i < j => Signals[i].priority <= Signals[j].priority
       /\ \A i, j \in 1..Len(Concatenated) :
             i < j /\ Concatenated[i].priority = Concatenated[j].priority
             => \E k, l \in 1..Len(Signals) :
                   /\ k < l
                   /\ Signals[k] = Concatenated[i]
                   /\ Signals[l] = Concatenated[j]

\* C8 witness: all five signal types occur, two signals share a priority,
\* and the concatenation was not already in priority order.
C8_Witness ==
    /\ scanned
    /\ { Signals[i].priority : i \in 1..Len(Signals) } = 1..5
    /\ \E i, j \in 1..Len(Signals) :
          i # j /\ Signals[i].priority = Signals[j].priority
    /\ Signals # Concatenated

TickersSeen == { unique_trades[i].ticker : i \in 1..Len(unique_trades) }

PurchasesOf(ticker) ==
    { i \in 1..Len(unique_trades) :
        /\ unique_trades[i].transaction_type = "purchase"
        /\ unique_trades[i].ticker = ticker }

\* C9: there is exactly one CLUSTER signal for each ticker with at least
\* cluster_threshold purchases and none for any other ticker; sales and
\* unknown-type trades do not count; count is the number of contributing
\* purchases and the length of politicians, dates and trades; total_amount
\* is their sum and avg_amount is total_amount integer-divided by count.
C9_Clusters ==
    scanned =>
       /\ \A t \in TickersSeen :
             Cardinality({ k \in 1..Len(clusters) : clusters[k].ticker = t })
                = IF Cardinality(PurchasesOf(t)) >= cluster_threshold
                  THEN 1 ELSE 0
       /\ \A k \in 1..Len(clusters) :
             LET c == clusters[k]
                 P == PurchasesOf(c.ticker)
             IN  /\ c.signal_type = "CLUSTER"
                 /\ c.ticker \in TickersSeen
                 /\ c.count = Cardinality(P)
                 /\ Len(c.politicians) = c.count
                 /\ Len(c.dates) = c.count
                 /\ Len(c.trades) = c.count
                 /\ \A i \in P :
                       /\ c.trades[RankIn(P, i)] = unique_trades[i]
                       /\ c.politicians[RankIn(P, i)]
                             = unique_trades[i].representative
                       /\ c.dates[RankIn(P, i)]
                             = unique_trades[i].transaction_date
                 /\ c.total_amount
                       = SumOver(P, [i \in P |-> unique_trades[i].amount])
                 /\ c.avg_amount = c.total_amount \div c.count

\* C9 witness: a ticker has exactly cluster_threshold purchases and a sale,
\* its cluster counts the purchases only, and another ticker with a
\* purchase has no cluster.
C9_Witness ==
    /\ scanned
    /\ \E k \in 1..Len(clusters) :
          /\ clusters[k].count = cluster_threshold
          /\ clusters[k].total_amount % clusters[k].count # 0
          /\ \E i \in 1..Len(unique_trades) :
                /\ unique_trades[i].ticker = clusters[k].ticker
                /\ unique_trades[i].transaction_type = "sale"
    /\ \E t \in TickersSeen :
          /\ PurchasesOf(t) # {}
          /\ \A k \in 1..Len(clusters) : clusters[k].ticker # t

LargeOnes ==
    { i \in 1..Len(unique_trades) : unique_trades[i].amount >= min_trade_size }

\* C10: there is exactly one LARGE_TRADE signal for each trade whose amount
\* is at least min_trade_size and none for a trade below it, whatever the
\* transaction type, in input order.
C10_LargeTrades ==
    scanned =>
       /\ Len(large_trades) = Cardinality(LargeOnes)
       /\ \A i \in LargeOnes :
             LET s == large_trades[RankIn(LargeOnes, i)]
             IN  /\ s.signal_type = "LARGE_TRADE"
                 /\ s.trade = unique_trades[i]
                 /\ s.ticker = unique_trades[i].ticker
                 /\ s.politician = unique_trades[i].representative
                 /\ s.amount = unique_trades[i].amount

\* C10 witness: a sale whose amount equals min_trade_size has a signal, after
\* the signal of an earlier purchase, and a trade below the floor has none.
C10_Witness ==
    /\ scanned
    /\ Len(large_trades) = 2
    /\ large_trades[1].transaction_type = "purchase"
    /\ large_trades[2].transaction_type = "sale"
    /\ large_trades[2].amount = min_trade_size
    /\ \E i \in 1..Len(unique_trades) : unique_trades[i].amount < min_trade_size

\* the watch-list positions whose name the trade's politician contains,
\* whatever the case of the letters
WatchHits(trade) ==
    { k \in 1..Len(top_performers) :
        Contains(Lower(Chars(top_performers[k])),
                 Lower(Chars(trade.representative))) }

\* the positions in a signal list of the signals raised for a trade
SignalsFor(list, trade) == { j \in 1..Len(list) : list[j].trade = trade }

\* C11: every transaction whose politician contains a watch-list name gets
\* exactly one TOP_PERFORMER signal, named after the first watch-list entry
\* it contains; every other transaction gets none.
C11_OnePerTransaction ==
    scanned =>
      /\ \A j \in 1..Len(top_performer_trades) :
            /\ top_performer_trades[j].signal_type = "TOP_PERFORMER"
            /\ \E i \in 1..Len(unique_trades) :
                  top_performer_trades[j].trade = unique_trades[i]
      /\ \A i \in 1..Len(unique_trades) :
            LET t == unique_trades[i]
                sigs == SignalsFor(top_performer_trades, t)
            IN  IF WatchHits(t) = {} THEN sigs = {}
                ELSE /\ Cardinality(sigs) = 1
                     /\ \A j \in sigs :
                           top_performer_trades[j].performer_name =
                              top_performers[
                                 CHOOSE k \in WatchHits(t) :
                                    \A h \in WatchHits(t) : k <= h]

\* C11 witness: a scan of live records met a politician whose name contains
\* two watch-list names and gave that trade a signal, and met a politician
\* who is on no list.
C11_Witness ==
    /\ scanned
    /\ provided # <<>>
    /\ \E j \in 1..Len(top_performer_trades) :
          Cardinality(WatchHits(top_performer_trades[j].trade)) >= 2
    /\ \E i \in 1..Len(unique_trades) : WatchHits(unique_trades[i]) = {}

\* the committees, by position, whose tickers hold the trade's ticker
CommitteeHits(trade) ==
    { k \in 1..Len(committee_alignments) :
        trade.ticker \in committee_alignments[k][2] }

\* C12: every transaction gets as many COMMITTEE_ALIGNED signals as there
\* are committees that list its ticker, one for each of these committees.
C12_OnePerCommittee ==
    scanned =>
      /\ \A j \in 1..Len(committee_aligned) :
            /\ committee_aligned[j].signal_type = "COMMITTEE_ALIGNED"
            /\ \E i \in 1..Len(unique_trades) :
                  committee_aligned[j].trade = unique_trades[i]
      /\ \A i \in 1..Len(unique_trades) :
            LET t == unique_trades[i]
                sigs == SignalsFor(committee_aligned, t)
            IN  /\ Cardinality(sigs) = Cardinality(CommitteeHits(t))
                /\ { committee_aligned[j].committee : j \in sigs } =
                   { committee_alignments[k][1] : k \in CommitteeHits(t) }

\* C12 witness: a scan gave one trade two committee signals, another trade
\* one, and a third none.
C12_Witness ==
    /\ scanned
    /\ \E i, j, k \in 1..Len(unique_trades) :
          /\ Cardinality(SignalsFor(committee_aligned, unique_trades[i])) = 2
          /\ Cardinality(SignalsFor(committee_aligned, unique_trades[j])) = 1
          /\ Cardinality(SignalsFor(committee_aligned, unique_trades[k])) = 0

----------------------------------------------------------------------------
(* parse_amount, the same text in CongressionalTradingScanner,             *)
(* CongressBuysStrategy and DanMeuserStrategy.  An argument is None, a     *)
(* number or a string; a string is the sequence of its characters.  A      *)
(* float is a fraction num/den with den a power of ten, which is exact for *)
(* the decimal numerals met here.                                          *)

MaxAmountLen == 3

NoneAmount == [kind |-> "none", chars |-> <<>>, val |-> 0]
NumberAmount(n) == [kind |-> "num", chars |-> <<>>, val |-> n]
StringAmount(chars) == [kind |-> "str", chars |-> chars, val |-> 0]

\* how a call ends
Returned(n) == [outcome |-> "returned", value |-> n]
Raised == [outcome |-> "raised", value |-> 0]

\* str.upper(), one character
UpperChar(c) ==
    CASE c = "a" -> "A"
      [] c = "b" -> "B"
      [] c = "c" -> "C"
      [] c = "d" -> "D"
      [] c = "e" -> "E"
      [] c = "f" -> "F"
      [] c = "g" -> "G"
      [] c = "h" -> "H"
      [] c = "i" -> "I"
      [] c = "j" -> "J"
      [] c = "k" -> "K"
      [] c = "l" -> "L"
      [] c = "m" -> "M"
      [] c = "n" -> "N"
      [] c = "o" -> "O"
      [] c = "p" -> "P"
      [] c = "q" -> "Q"
      [] c = "r" -> "R"
      [] c = "s" -> "S"
      [] c = "t" -> "T"
      [] c = "u" -> "U"
      [] c = "v" -> "V"
      [] c = "w" -> "W"
      [] c = "x" -> "X"
      [] c = "y" -> "Y"
      [] c = "z" -> "Z"
      [] OTHER -> c

Upper(chars) == [i \in 1..Len(chars) |-> UpperChar(chars[i])]

\* c in chars
HasChar(chars, c) == \E i \in 1..Len(chars) : chars[i] = c

\* chars.replace(c, '')
Remove(chars, c) == SelectSeq(chars, LAMBDA x : x # c)

\* chars.strip(), for the blank
RECURSIVE LStrip(_)
LStrip(chars) ==
    IF chars # <<>> /\ Head(chars) = " " THEN LStrip(Tail(chars)) ELSE chars

RECURSIVE RStrip(_)
RStrip(chars) ==
    IF chars # <<>> /\ chars[Len(chars)] = " "
    THEN RStrip(SubSeq(chars, 1, Len(chars) - 1))
    ELSE chars

Strip(chars) == RStrip(LStrip(chars))

\* chars.split('-')[0] and what follows the first '-'
RECURSIVE BeforeDash(_)
BeforeDash(chars) ==
    IF chars = <<>> \/ Head(chars) = "-" THEN <<>>
    ELSE <<Head(chars)>> \o BeforeDash(Tail(chars))

AfterDash(chars) == SubSeq(chars, Len(BeforeDash(chars)) + 2, Len(chars))

Digits == {"0", "1", "2", "3", "4", "5", "6", "7", "8", "9"}

DigitVal(c) ==
    CASE c = "0" -> 0 [] c = "1" -> 1 [] c = "2" -> 2 [] c = "3" -> 3
      [] c = "4" -> 4 [] c = "5" -> 5 [] c = "6" -> 6 [] c = "7" -> 7
      [] c = "8" -> 8 [] c = "9" -> 9

RECURSIVE DecVal(_)
DecVal(digs) ==
    IF digs = <<>> THEN 0
    ELSE 10 * DecVal(SubSeq(digs, 1, Len(digs) - 1)) + DigitVal(digs[Len(digs)])

RECURSIVE Pow10(_)
Pow10(n) == IF n = 0 THEN 1 ELSE 10 * Pow10(n - 1)

\* float(chars): blanks around the numeral are dropped, then an optional
\* sign, then digits with at most one point and at least one digit;
\* anything else is a ValueError
NotFloat == [ok |-> FALSE, num |-> 0, den |-> 1]

Float(chars) ==
    LET s == Strip(chars)
        signed == s # <<>> /\ s[1] \in {"+", "-"}
        body == IF signed THEN Tail(s) ELSE s
        digs == SelectSeq(body, LAMBDA c : c \in Digits)
        points == { i \in 1..Len(body) : body[i] = "." }
    IN  IF \/ digs = <<>>
           \/ Cardinality(points) > 1
           \/ \E i \in 1..Len(body) : body[i] \notin Digits \cup {"."}
        THEN NotFloat
        ELSE [ok |-> TRUE,
              num |-> (IF signed /\ s[1] = "-" THEN -1 ELSE 1) * DecVal(digs),
              den |-> IF points = {} THEN 1
                      ELSE Pow10(Len(body) - (CHOOSE i \in points : TRUE))]

\* int(x) of the fraction n/d: towards zero
Trunc(n, d) == IF n >= 0 THEN n \div d ELSE -((-n) \div d)

\* a range estimate that takes the lower endpoint
MidpointLow(low, high) == Trunc(low.num, low.den)

\* int((low + high) / 2)
Midpoint(low, high) ==
    Trunc(low.num * high.den + high.num * low.den, 2 * low.den * high.den)

\* the try block of the range rule: the value, or NotFloat when float()
\* raised in it
RangeRule(s) ==
    LET low == Float(BeforeDash(s))
        high == Float(BeforeDash(AfterDash(s)))
    IN  IF low.ok /\ high.ok
        THEN [ok |-> TRUE, num |-> Midpoint(low, high), den |-> 1]
        ELSE NotFloat

\* the try block of the K and of the M rule
SuffixRule(s, letter, factor) ==
    LET x == Float(Remove(Upper(s), letter))
    IN  IF x.ok
        THEN [ok |-> TRUE, num |-> Trunc(x.num * factor, x.den), den |-> 1]
        ELSE NotFloat

\* parse_amount from the rules on: s is the argument without '$' and ','
\* and without the blanks around it
ParseCleaned(s) ==
    IF HasChar(s, "-") /\ RangeRule(s).ok THEN RangeRule(s).num
    ELSE IF HasChar(Upper(s), "K") /\ SuffixRule(s, "K", 1000).ok
         THEN SuffixRule(s, "K", 1000).num
    ELSE IF HasChar(Upper(s), "M") /\ SuffixRule(s, "M", 1000000).ok
         THEN SuffixRule(s, "M", 1000000).num
    ELSE IF Float(s).ok THEN Trunc(Float(s).num, Float(s).den)
    ELSE 0

\* amount_str.replace('$', '').replace(',', '').strip()
Cleaned(chars) == Strip(Remove(Remove(chars, "$"), ","))

\* parse_amount: a falsy argument gives 0; a number that is not 0 has no
\* `replace`, and the AttributeError leaves the function
ParseAmount(amount) ==
    IF amount.kind = "none" THEN Returned(0)
    ELSE IF amount.kind = "num"
         THEN IF amount.val = 0 THEN Returned(0) ELSE Raised
    ELSE IF amount.chars = <<>> THEN Returned(0)
    ELSE Returned(ParseCleaned(Cleaned(amount.chars)))

\* the characters of the amounts tried
AmountAlphabet ==
    {"$", ",", " ", "-", ".", "0", "1", "5", "K", "k", "M", "m", "x"}

\* the amounts of the provider documentation
RangeExample ==
    <<"$", "1", ",", "0", "0", "1", " ", "-", " ",
      "$", "1", "5", ",", "0", "0", "0">>
KExample == <<"2", "5", "0", "K">>
MExample == <<"1", ".", "5", "M">>
GarbageExample == <<"g", "a", "r", "b", "a", "g", "e">>

AmountStrings ==
    UNION { [1..n -> AmountAlphabet] : n \in 0..MaxAmountLen }
    \cup {RangeExample, KExample, MExample, GarbageExample}

\* what the `amount` field of a provider record can hold
AmountValues ==
    {NoneAmount} \cup { NumberAmount(n) : n \in {0, 15000} }
    \cup { StringAmount(chars) : chars \in AmountStrings }

\* the other parts of the program, at rest
TrackerIdle ==
    /\ history = EmptyHistory
    /\ today = 0
    /\ lastOp = [op |-> "init"]

InitParse ==
    /\ TrackerIdle
    /\ RunInit
    /\ ScanIdle
    /\ AlertIdle
    /\ PipelineIdle
    /\ FetchIdle
    /\ MirrorIdle
    /\ BuysIdle
    /\ ValueIdle
    /\ amount_str \in AmountValues
    /\ parsed = [outcome |-> "pending", value |-> 0]

\* one call of parse_amount
CallParseAmount ==
    /\ parsed.outcome = "pending"
    /\ parsed' = ParseAmount(amount_str)
    /\ UNCHANGED <<pipeline, alertVars, amount_str, trackerVars, runVars, configVars, scanVars,
                   fetchVars, mirrorVars, buysVars, your_portfolio_value>>

NextParse == CallParseAmount

SpecParse == InitParse /\ [][NextParse]_vars

----------------------------------------------------------------------------
(* Properties of parse_amount, under SpecParse *)

\* C13: a call of parse_amount never raises, whatever the argument: a
\* string, the empty string, None or a number.
C13_NeverRaises == parsed.outcome # "raised"

\* C14: the value parse_amount returns is never negative.
C14_NonNegative == parsed.outcome = "returned" => parsed.value >= 0

\* s is 'a-b' or 'a-b-...' with a and b numerals
TwoEndpoints(s, i, j) ==
    /\ i \in 1..Len(s) /\ j \in (i + 1)..(Len(s) + 1)
    /\ s[i] = "-" /\ (j <= Len(s) => s[j] = "-")
    /\ \A k \in 1..(j - 1) : k # i => s[k] # "-"
    /\ Float(SubSeq(s, 1, i - 1)).ok
    /\ Float(SubSeq(s, i + 1, j - 1)).ok

\* the value of the rules behind the range rule
LaterRules(s) ==
    LET k == Float(Remove(Upper(s), "K"))
        m == Float(Remove(Upper(s), "M"))
        n == Float(s)
    IN  IF HasChar(Upper(s), "K") /\ k.ok THEN Trunc(k.num * 1000, k.den)
        ELSE IF HasChar(Upper(s), "M") /\ m.ok
             THEN Trunc(m.num * 1000000, m.den)
        ELSE IF n.ok THEN Trunc(n.num, n.den)
        ELSE 0

\* C15: with '$' and ',' removed, 'a-b' with two numeric endpoints gives
\* floor((a+b)/2); any other string gives what the K rule, then the M rule,
\* then the plain-number rule give, and 0 when none applies; a numeral
\* followed by K or M, in either case, gives the numeral times 1000 or
\* 1000000; '$1,001 - $15,000' gives 8000, '250K' 250000, '1.5M' 1500000,
\* 'garbage' 0 and None 0.
C15_RuleOrder ==
    parsed.outcome # "pending" =>
      /\ amount_str = NoneAmount => parsed = Returned(0)
      /\ amount_str = StringAmount(RangeExample) => parsed = Returned(8000)
      /\ amount_str = StringAmount(KExample) => parsed = Returned(250000)
      /\ amount_str = StringAmount(MExample) => parsed = Returned(1500000)
      /\ amount_str = StringAmount(GarbageExample) => parsed = Returned(0)
      /\ amount_str.kind = "str" /\ amount_str.chars # <<>> =>
            LET s == Cleaned(amount_str.chars)
            IN  /\ parsed.outcome = "returned"
                /\ \A i \in 1..Len(s), j \in 1..(Len(s) + 1) :
                      TwoEndpoints(s, i, j) =>
                         LET a == Float(SubSeq(s, 1, i - 1))
                             b == Float(SubSeq(s, i + 1, j - 1))
                         IN  parsed.value =
                                (a.num * b.den + b.num * a.den)
                                   \div (2 * a.den * b.den)
                /\ (~ \E i \in 1..Len(s), j \in 1..(Len(s) + 1) :
                        TwoEndpoints(s, i, j))
                      => parsed.value = LaterRules(s)
                /\ \A letter \in {"K", "k", "M", "m"} :
                      LET p == SubSeq(s, 1, Len(s) - 1)
                      IN  s # <<>> /\ s[Len(s)] = letter /\ Float(p).ok =>
                             parsed.value =
                                Trunc(Float(p).num *
                                        (IF letter \in {"K", "k"} THEN 1000
                                         ELSE 1000000),
                                      Float(p).den)

\* C15 witness: the range of the provider documentation was parsed to its
\* midpoint.
C15_Witness ==
    /\ amount_str = StringAmount(RangeExample)
    /\ parsed = Returned(8000)

----------------------------------------------------------------------------
(* DanMeuserStrategy and CongressBuysStrategy.  Amounts are dollars;       *)
(* weights are integers in hundredths of a percent and target values       *)
(* integers in cents (Python rounds both to two decimals).                 *)

MaxMirrorTrades == 4
MaxPurchases == 4

\* the values of your_portfolio_value, in dollars
PortfolioValues == {10000, 333}

\* the order of sort keys, which are tuples of integers of one length
RECURSIVE KeyLess(_, _)
KeyLess(a, b) ==
    IF a = <<>> THEN FALSE
    ELSE \/ Head(a) < Head(b)
         \/ Head(a) = Head(b) /\ KeyLess(Tail(a), Tail(b))

\* list.sort(key=...) on pairs <<key, item>>: x goes behind every pair
\* whose key is not larger, so equal keys keep the order of the list
RECURSIVE InsertByKey(_, _)
InsertByKey(x, sorted) ==
    IF sorted = <<>> THEN <<x>>
    ELSE IF KeyLess(x[1], Head(sorted)[1]) THEN <<x>> \o sorted
         ELSE <<Head(sorted)>> \o InsertByKey(x, Tail(sorted))

RECURSIVE SortPairs(_, _)
SortPairs(list, sorted) ==
    IF list = <<>> THEN sorted
    ELSE SortPairs(Tail(list), InsertByKey(Head(list), sorted))

SortByKey(list, Key(_)) ==
    LET pairs == [i \in 1..Len(list) |-> <<Key(list[i]), list[i]>>]
        s == SortPairs(pairs, <<>>)
    IN  [i \in 1..Len(s) |-> s[i][2]]

\* the keys of a defaultdict filled in the order of the list
RECURSIVE TickersInOrder(_, _)
TickersInOrder(list, found) ==
    IF list = <<>> THEN found
    ELSE IF \E i \in 1..Len(found) : found[i] = Head(list).ticker
         THEN TickersInOrder(Tail(list), found)
         ELSE TickersInOrder(Tail(list), Append(found, Head(list).ticker))

\* a trade as fetch_dan_meuser_trades appends it (description and
\* disclosure date, which nothing reads, left out)
MeuserTrade(ticker, date, type, amount) ==
    [ticker |-> ticker, date |-> date, transaction_type |-> type,
     amount |-> amount]

\* trades fetch_dan_meuser_trades can return: a buy with a partial and a
\* full sale, small buys, a trade of unknown type, a sale without a buy
MeuserRecords ==
    { MeuserTrade("XYZ", 1, "BUY", 50000),
      MeuserTrade("XYZ", 2, "SELL", 20000),
      MeuserTrade("XYZ", 3, "SELL", 50000),
      MeuserTrade("ABC", 1, "BUY", 1500),
      MeuserTrade("ABC", 2, "UNKNOWN", 50000),
      MeuserTrade("DEF", 3, "SELL", 1500),
      MeuserTrade("DEF", 2, "BUY", 1500) }

MeuserLists ==
    UNION { [1..n -> MeuserRecords] : n \in 0..MaxMirrorTrades }

\* a position whose last trade is the one the list ends with
PositionLastSeen(list, ticker) ==
    LET mine == SelectSeq(list, LAMBDA t : t.ticker = ticker)
        buys == SelectSeq(mine, LAMBDA t : t.transaction_type = "BUY")
        sells == SelectSeq(mine, LAMBDA t : t.transaction_type = "SELL")
        bought == SumSeq([i \in 1..Len(buys) |-> buys[i].amount])
        sold == SumSeq([i \in 1..Len(sells) |-> sells[i].amount])
    IN  [buys |-> bought, sells |-> sold, net_amount |-> bought - sold,
         last_trade |-> mine[Len(mine)].date]

\* calculate_current_portfolio: positions[ticker] after the loop
Position(list, ticker) ==
    LET mine == SelectSeq(list, LAMBDA t : t.ticker = ticker)
        buys == SelectSeq(mine, LAMBDA t : t.transaction_type = "BUY")
        sells == SelectSeq(mine, LAMBDA t : t.transaction_type = "SELL")
        bought == SumSeq([i \in 1..Len(buys) |-> buys[i].amount])
        sold == SumSeq([i \in 1..Len(sells) |-> sells[i].amount])
    IN  [buys |-> bought, sells |-> sold, net_amount |-> bought - sold,
         last_trade |-> MaxSeq([i \in 1..Len(mine) |-> mine[i].date])]

\* a test that also keeps a position sold down to nothing
StillHoldingOrFlat(position) == position.net_amount >= 0

\* calculate_current_portfolio: `if data['net_amount'] > 0`
StillHolding(position) == position.net_amount > 0

\* a total over every ticker traded, held or not
TotalValueAll(list, tickers) ==
    LET all == TickersInOrder(list, <<>>)
    IN  SumSeq([i \in 1..Len(all) |-> Position(list, all[i]).net_amount])

\* calculate_current_portfolio: total_value, summed over the tickers held
TotalValue(list, tickers) ==
    SumSeq([i \in 1..Len(tickers) |-> Position(list, tickers[i]).net_amount])

RECURSIVE GCD(_, _)
GCD(a, b) == IF b = 0 THEN a ELSE GCD(b, a % b)

\* round((part / whole) * 100, 2) for part >= 0 and whole > 0, in
\* hundredths; the fraction is reduced first, which keeps the product small
Percent(part, whole) ==
    LET g == GCD(part, whole)
    IN  RoundHalfEven((part \div g) * 10000, whole \div g)

\* calculate_current_portfolio: the weight of one position
MirrorWeight(estimated_position, total_value) ==
    IF total_value > 0 THEN Percent(estimated_position, total_value) ELSE 0

WeightKey(position) == <<-position.weight>>

CalculateCurrentPortfolio(list) ==
    LET held == SelectSeq(TickersInOrder(list, <<>>),
                          LAMBDA k : StillHolding(Position(list, k)))
        total_value == TotalValue(list, held)
        portfolio ==
            [i \in 1..Len(held) |->
                LET p == Position(list, held[i])
                IN  [ticker |-> held[i],
                     estimated_position |-> p.net_amount,
                     total_buys |-> p.buys,
                     total_sells |-> p.sells,
                     last_trade_date |-> p.last_trade,
                     status |-> "HOLDING",
                     weight |-> MirrorWeight(p.net_amount, total_value)]]
    IN  [portfolio |-> SortByKey(portfolio, WeightKey),
         total_value |-> total_value,
         num_positions |-> Len(portfolio)]

\* generate_mirror_signals: HIGH from 10 percent, MEDIUM from 5 percent
Priority(weight) ==
    IF weight >= 1000 THEN "HIGH"
    ELSE IF weight >= 500 THEN "MEDIUM" ELSE "LOW"

\* priority_order and conviction_order
TierRank(tier) ==
    CASE tier = "HIGH" -> 0 [] tier = "MEDIUM" -> 1 [] tier = "LOW" -> 2

\* round((weight / 100) * your_portfolio_value, 2), in cents
TargetValue(weight, value) == RoundHalfEven(weight * value, 100)

MirrorSignalKey(signal) == <<TierRank(signal.priority), -signal.weight>>

GenerateMirrorSignals(portfolio, value) ==
    LET positions == portfolio.portfolio
        signals ==
            [i \in 1..Len(positions) |->
                [ticker |-> positions[i].ticker,
                 action |-> "BUY",
                 weight |-> positions[i].weight,
                 target_value |-> TargetValue(positions[i].weight, value),
                 dan_position_size |-> positions[i].estimated_position,
                 last_trade |-> positions[i].last_trade_date,
                 priority |-> Priority(positions[i].weight)]]
    IN  SortByKey(signals, MirrorSignalKey)

InitMirror ==
    /\ TrackerIdle
    /\ RunInit
    /\ ScanIdle
    /\ AlertIdle
    /\ PipelineIdle
    /\ ParseIdle
    /\ FetchIdle
    /\ BuysIdle
    /\ your_portfolio_value \in PortfolioValues
    /\ meuser_trades \in MeuserLists
    /\ meuser_portfolio = <<>>
    /\ meuser_signals = <<>>
    /\ meuser_pc = "start"

\* one call of calculate_current_portfolio
CalculatePortfolio ==
    /\ meuser_pc = "start"
    /\ meuser_portfolio' = CalculateCurrentPortfolio(meuser_trades)
    /\ meuser_pc' = "portfolio"
    /\ UNCHANGED <<pipeline, alertVars, meuser_trades, meuser_signals, your_portfolio_value,
                   trackerVars, runVars, configVars, scanVars, parseVars,
                   fetchVars, buysVars>>

\* one call of generate_mirror_signals on that portfolio
MirrorSignals ==
    /\ meuser_pc = "portfolio"
    /\ meuser_signals' =
          GenerateMirrorSignals(meuser_portfolio, your_portfolio_value)
    /\ meuser_pc' = "signals"
    /\ UNCHANGED <<pipeline, alertVars, meuser_trades, meuser_portfolio, your_portfolio_value,
                   trackerVars, runVars, configVars, scanVars, parseVars,
                   fetchVars, buysVars>>

NextMirror == CalculatePortfolio \/ MirrorSignals

SpecMirror == InitMirror /\ [][NextMirror]_vars

----------------------------------------------------------------------------
(* Properties of the mirror run, under SpecMirror *)

\* what trade i adds to the net amount of its ticker
SignedAmount(list) ==
    [i \in 1..Len(list) |->
        IF list[i].transaction_type = "BUY" THEN list[i].amount
        ELSE IF list[i].transaction_type = "SELL" THEN -list[i].amount
        ELSE 0]

\* the sum of the BUY amounts of a ticker minus the sum of its SELL amounts
NetAmount(list, ticker) ==
    SumOver({ i \in 1..Len(list) : list[i].ticker = ticker },
            SignedAmount(list))

Held == meuser_portfolio.portfolio

\* C16: the portfolio holds exactly the tickers whose BUY amounts exceed
\* their SELL amounts, each once, with that difference as
\* estimated_position and status 'HOLDING'; a ticker whose net amount is 0
\* or negative is absent.
C16_NetPositions ==
    meuser_pc # "start" =>
      /\ \A i \in 1..Len(meuser_trades) :
            LET ticker == meuser_trades[i].ticker
            IN  NetAmount(meuser_trades, ticker) > 0
                   <=> \E j \in 1..Len(Held) : Held[j].ticker = ticker
      /\ \A j \in 1..Len(Held) :
            /\ \E i \in 1..Len(meuser_trades) :
                  meuser_trades[i].ticker = Held[j].ticker
            /\ Held[j].estimated_position =
                  NetAmount(meuser_trades, Held[j].ticker)
            /\ Held[j].status = "HOLDING"
            /\ \A k \in 1..Len(Held) : k # j => Held[k].ticker # Held[j].ticker

\* C16 witness: one ticker bought for 50000 and partly sold is held at
\* 30000, another bought and sold for the same amount is absent.
C16_Witness ==
    /\ meuser_pc # "start"
    /\ \E j \in 1..Len(Held) :
          /\ Held[j].estimated_position = 30000
          /\ Held[j].total_buys = 50000
          /\ Held[j].total_sells = 20000
    /\ \E i \in 1..Len(meuser_trades) :
          /\ meuser_trades[i].transaction_type = "BUY"
          /\ NetAmount(meuser_trades, meuser_trades[i].ticker) = 0
          /\ \A j \in 1..Len(Held) : Held[j].ticker # meuser_trades[i].ticker

Abs(x) == IF x >= 0 THEN x ELSE -x

\* the net amounts of the held positions, summed
HeldTotal ==
    SumOver(1..Len(Held), [j \in 1..Len(Held) |-> Held[j].estimated_position])

\* weight is 100 * part / whole to the nearest hundredth, for whole > 0
NearestHundredth(weight, part, whole) ==
    LET g == GCD(Abs(part), whole)
    IN  2 * Abs(weight * (whole \div g) - 10000 * (part \div g))
           <= whole \div g

\* C17: total_value is the sum of the held net amounts; it is positive
\* whenever a weight is computed; every weight is 100 * net / total_value
\* to the nearest hundredth and lies between 0 and 100; the portfolio is in
\* descending order of weight.
C17_MirrorWeights ==
    meuser_pc # "start" =>
      /\ meuser_portfolio.total_value = HeldTotal
      /\ meuser_portfolio.num_positions = Len(Held)
      /\ Held # <<>> => HeldTotal > 0
      /\ \A j \in 1..Len(Held) :
            /\ NearestHundredth(Held[j].weight, Held[j].estimated_position,
                                HeldTotal)
            /\ Held[j].weight >= 0 /\ Held[j].weight <= 10000
      /\ \A j, k \in 1..Len(Held) :
            j < k => Held[j].weight >= Held[k].weight

\* C17 witness: a portfolio of two positions whose weights are not whole
\* percents, the heavier one traded last and listed first, next to a ticker
\* that was only sold.
C17_Witness ==
    /\ meuser_pc # "start"
    /\ Len(Held) = 2
    /\ Held[1].weight % 100 # 0
    /\ Held[1].weight > Held[2].weight
    /\ Held[2].ticker = meuser_trades[1].ticker
    /\ \E i \in 1..Len(meuser_trades) :
          NetAmount(meuser_trades, meuser_trades[i].ticker) < 0

----------------------------------------------------------------------------
(* CongressBuysStrategy *)

\* a purchase as fetch_all_purchases appends it
Purchase(ticker, date, politician, amount, chamber) ==
    [ticker |-> ticker, date |-> date, politician |-> politician,
     amount |-> amount, chamber |-> chamber]

\* purchases fetch_all_purchases can return, each of min_position_size or
\* more: three members buying one ticker, one member buying a ticker twice,
\* amounts in the proportion 1 : 3 : 6
PurchaseRecords ==
    { Purchase("NVDA", 1, "Nancy Pelosi", 15000, "House"),
      Purchase("NVDA", 2, "Dan Crenshaw", 15000, "House"),
      Purchase("NVDA", 3, "Josh Gottheimer", 15000, "House"),
      Purchase("MSFT", 1, "Nancy Pelosi", 45000, "House"),
      Purchase("MSFT", 2, "Nancy Pelosi", 15000, "House"),
      Purchase("LMT", 1, "Jim Banks", 90000, "Senate"),
      Purchase("LMT", 2, "Jim Banks", 15000, "Senate") }

PurchaseLists ==
    UNION { [1..n -> PurchaseRecords] : n \in 0..MaxPurchases }

\* calculate_portfolio_weights: ticker_data[ticker] after the loop
TickerData(list, ticker) ==
    LET mine == SelectSeq(list, LAMBDA p : p.ticker = ticker)
    IN  [total_amount |-> SumSeq([i \in 1..Len(mine) |-> mine[i].amount]),
         count |-> Len(mine),
         politicians |-> [i \in 1..Len(mine) |-> mine[i].politician]]

\* a weight cut off behind the second decimal
BuysWeightFloor(total_amount, total_value) ==
    LET g == GCD(total_amount, total_value)
    IN  ((total_amount \div g) * 10000) \div (total_value \div g)

\* round((total_amount / total_value) * 100, 2); total_value is positive
\* whenever there is a ticker, every purchase being of min_position_size
\* or more
BuysWeight(total_amount, total_value) == Percent(total_amount, total_value)

CalculatePortfolioWeights(list) ==
    LET tickers == TickersInOrder(list, <<>>)
        total_value ==
            SumSeq([i \in 1..Len(tickers) |->
                       TickerData(list, tickers[i]).total_amount])
        portfolio ==
            [i \in 1..Len(tickers) |->
                LET t == TickerData(list, tickers[i])
                    names == { t.politicians[j] : j \in 1..Len(t.politicians) }
                IN  [ticker |-> tickers[i],
                     weight |-> BuysWeight(t.total_amount, total_value),
                     total_amount |-> t.total_amount,
                     purchase_count |-> t.count,
                     politicians |-> names,
                     num_politicians |-> Cardinality(names)]]
    IN  [portfolio |-> SortByKey(portfolio, WeightKey),
         total_value |-> total_value,
         num_positions |-> Len(portfolio)]

\* a tiering in which two members already make a HIGH
ConvictionFromTwo(num_politicians) ==
    IF num_politicians >= 2 THEN "HIGH" ELSE "LOW"

\* generate_rebalance_signals: HIGH from three members, MEDIUM for two
Conviction(num_politicians) ==
    IF num_politicians >= 3 THEN "HIGH"
    ELSE IF num_politicians = 2 THEN "MEDIUM" ELSE "LOW"

RebalanceSignalKey(signal) == <<TierRank(signal.conviction), -signal.weight>>

GenerateRebalanceSignals(current_portfolio, value) ==
    LET positions == current_portfolio.portfolio
        signals ==
            [i \in 1..Len(positions) |->
                [ticker |-> positions[i].ticker,
                 action |-> "BUY",
                 weight |-> positions[i].weight,
                 target_value |-> TargetValue(positions[i].weight, value),
                 num_congress_buyers |-> positions[i].num_politicians,
                 total_congress_amount |-> positions[i].total_amount,
                 conviction |-> Conviction(positions[i].num_politicians)]]
    IN  SortByKey(signals, RebalanceSignalKey)

InitBuys ==
    /\ TrackerIdle
    /\ RunInit
    /\ ScanIdle
    /\ AlertIdle
    /\ PipelineIdle
    /\ ParseIdle
    /\ FetchIdle
    /\ MirrorIdle
    /\ your_portfolio_value \in PortfolioValues
    /\ purchases \in PurchaseLists
    /\ buys_portfolio = <<>>
    /\ buys_signals = <<>>
    /\ buys_pc = "start"

\* one call of calculate_portfolio_weights
CalculateWeights ==
    /\ buys_pc = "start"
    /\ buys_portfolio' = CalculatePortfolioWeights(purchases)
    /\ buys_pc' = "portfolio"
    /\ UNCHANGED <<pipeline, alertVars, purchases, buys_signals, your_portfolio_value,
                   trackerVars, runVars, configVars, scanVars, parseVars,
                   fetchVars, mirrorVars>>

\* one call of generate_rebalance_signals on that portfolio
RebalanceSignals ==
    /\ buys_pc = "portfolio"
    /\ buys_signals' =
          GenerateRebalanceSignals(buys_portfolio, your_portfolio_value)
    /\ buys_pc' = "signals"
    /\ UNCHANGED <<pipeline, alertVars, purchases, buys_portfolio, your_portfolio_value,
                   trackerVars, runVars, configVars, scanVars, parseVars,
                   fetchVars, mirrorVars>>

NextBuys == CalculateWeights \/ RebalanceSignals

SpecBuys == InitBuys /\ [][NextBuys]_vars

\* run_all_strategies: each strategy computes its portfolio and signals
\* only when its fetch returned something
InitStrategies == InitBuys \/ InitMirror

RunCongressBuys == purchases # <<>> /\ (CalculateWeights \/ RebalanceSignals)

RunDanMeuser == meuser_trades # <<>> /\ (CalculatePortfolio \/ MirrorSignals)

NextStrategies == RunCongressBuys \/ RunDanMeuser

SpecStrategies == InitStrategies /\ [][NextStrategies]_vars

----------------------------------------------------------------------------
(* Properties of the aggregate run, under SpecBuys, and of the signals of  *)
(* both strategies, under SpecStrategies                                   *)

Bought == buys_portfolio.portfolio

\* the sum of the amounts of the purchases of a ticker
TickerTotal(list, ticker) ==
    SumOver({ i \in 1..Len(list) : list[i].ticker = ticker },
            [i \in 1..Len(list) |-> list[i].amount])

GrandTotal(list) ==
    SumOver(1..Len(list), [i \in 1..Len(list) |-> list[i].amount])

\* C18: the portfolio has one entry for each ticker purchased, whose weight
\* is 100 * (the ticker's total) / (the total of all purchases) to the
\* nearest hundredth; the weights add up to 100 within 0.01 for each entry;
\* the entries are in descending order of weight; totals in the proportion
\* 1 : 3 : 6 have the weights 10, 30 and 60.
C18_AggregateWeights ==
    buys_pc # "start" =>
      /\ \A i \in 1..Len(purchases) :
            \E j \in 1..Len(Bought) : Bought[j].ticker = purchases[i].ticker
      /\ \A j \in 1..Len(Bought) :
            LET total == TickerTotal(purchases, Bought[j].ticker)
            IN  /\ total > 0
                /\ \A k \in 1..Len(Bought) :
                      k # j => Bought[k].ticker # Bought[j].ticker
                /\ NearestHundredth(Bought[j].weight, total,
                                    GrandTotal(purchases))
                /\ 10 * total = GrandTotal(purchases) => Bought[j].weight = 1000
                /\ 10 * total = 3 * GrandTotal(purchases)
                      => Bought[j].weight = 3000
                /\ 10 * total = 6 * GrandTotal(purchases)
                      => Bought[j].weight = 6000
      /\ Bought # <<>> =>
            Abs(SumOver(1..Len(Bought),
                        [j \in 1..Len(Bought) |-> Bought[j].weight]) - 10000)
               <= Len(Bought)
      /\ \A j, k \in 1..Len(Bought) :
            j < k => Bought[j].weight >= Bought[k].weight

\* C18 witness: three tickers bought in ascending order of amount, in the
\* proportion 1 : 3 : 6, are listed with the weights 60, 30 and 10.
C18_Witness ==
    /\ buys_pc # "start"
    /\ Len(purchases) = 3
    /\ [j \in 1..Len(Bought) |-> Bought[j].weight] = <<6000, 3000, 1000>>
    /\ Bought[3].ticker = purchases[1].ticker
    /\ Bought[1].ticker = purchases[3].ticker

\* HIGH before MEDIUM before LOW
TierOrder == <<"HIGH", "MEDIUM", "LOW">>

RankOf(tier) == CHOOSE r \in 1..Len(TierOrder) : TierOrder[r] = tier

\* the number of different members among the buyers of a ticker
Buyers(list, ticker) ==
    Cardinality({ list[i].politician :
                    i \in { k \in 1..Len(list) : list[k].ticker = ticker } })

\* signals has one signal for each position, with the position's weight and
\* the target value V * weight / 100 to the nearest cent
OneSignalEach(signals, positions) ==
    /\ Len(signals) = Len(positions)
    /\ \A j \in 1..Len(positions) :
          \E i \in 1..Len(signals) :
             /\ signals[i].ticker = positions[j].ticker
             /\ signals[i].weight = positions[j].weight
             /\ \A k \in 1..Len(signals) :
                   k # i => signals[k].ticker # signals[i].ticker
    /\ \A i \in 1..Len(signals) :
          2 * Abs(100 * signals[i].target_value
                  - signals[i].weight * your_portfolio_value) <= 100

\* signals is in ascending order of tier rank and, within a tier, in
\* descending order of weight
TierSorted(signals, tier) ==
    \A i, j \in 1..Len(signals) :
       i < j =>
          \/ RankOf(tier[i]) < RankOf(tier[j])
          \/ /\ tier[i] = tier[j]
             /\ signals[i].weight >= signals[j].weight

\* C19: both strategies emit one signal for each portfolio position, with
\* target_value = V * weight / 100 to the nearest cent, sorted by tier
\* (HIGH, MEDIUM, LOW) and then by descending weight; the aggregate tier is
\* HIGH for three or more different buyers, MEDIUM for exactly two, LOW
\* otherwise; the mirror tier is HIGH for a weight of 10 percent or more,
\* MEDIUM for 5 percent or more, LOW otherwise.
C19_SignalTiers ==
    /\ buys_pc = "signals" =>
          /\ OneSignalEach(buys_signals, Bought)
          /\ \A i \in 1..Len(buys_signals) :
                LET n == Buyers(purchases, buys_signals[i].ticker)
                IN  buys_signals[i].conviction =
                       IF n >= 3 THEN "HIGH"
                       ELSE IF n = 2 THEN "MEDIUM" ELSE "LOW"
          /\ TierSorted(buys_signals,
                [i \in 1..Len(buys_signals) |-> buys_signals[i].conviction])
    /\ meuser_pc = "signals" =>
          /\ OneSignalEach(meuser_signals, Held)
          /\ \A i \in 1..Len(meuser_signals) :
                meuser_signals[i].priority =
                   IF meuser_signals[i].weight >= 1000 THEN "HIGH"
                   ELSE IF meuser_signals[i].weight >= 500 THEN "MEDIUM"
                   ELSE "LOW"
          /\ TierSorted(meuser_signals,
                [i \in 1..Len(meuser_signals) |-> meuser_signals[i].priority])

\* C19 witness: in the aggregate run a ticker with three buyers is listed
\* before a heavier ticker with one buyer, the target values being rounded
\* to the cent.
C19_Witness ==
    /\ buys_pc = "signals"
    /\ Len(buys_signals) = 2
    /\ buys_signals[1].conviction = "HIGH"
    /\ buys_signals[2].conviction = "LOW"
    /\ buys_signals[1].weight < buys_signals[2].weight
    /\ (buys_signals[1].weight * your_portfolio_value) % 100 # 0

\* C19 second case, reached as well: the mirror run with one signal in each
\* tier
MirrorThreeTiers ==
    /\ meuser_pc = "signals"
    /\ [i \in 1..Len(meuser_signals) |-> meuser_signals[i].priority]
          = <<"HIGH", "MEDIUM", "LOW">>

----------------------------------------------------------------------------
(* The normalizers: fetch_from_apis of the scanner and fetch_all_purchases *)
(* of CongressBuysStrategy, on the records two providers answer with.      *)

MaxRecords == 2

lookback_days == 90
min_position_size == 15000

\* the values of filters.max_days_old in the configuration file
MaxDaysOld == {7, 30}

\* a record of a provider; an absent field, None and '' are all '' here;
\* filer is the field 'representative' of a House record and the field
\* 'senator' of a Senate record
RawRecord(ticker, desc, amount, type, date, filer) ==
    [ticker |-> ticker, asset_description |-> desc, amount |-> amount,
     type |-> type, transaction_date |-> date, filer |-> filer,
     party |-> ""]

\* records a provider can answer with: a ticker field; no ticker field and a
\* description with a symbol, without one, with a lower-case word or a
\* six-letter word in parentheses; a ticker field of '--' or in lower case;
\* a number as amount; an old trade; a trade of Dan Meuser
RawRecords ==
    { RawRecord("NVDA", "NVIDIA Corporation (NVDA)",
                StringAmount(KExample), "Purchase", -2, "Nancy Pelosi"),
      RawRecord("NVDA", "NVIDIA Corporation (NVDA)",
                StringAmount(KExample), "Purchase", -2, "Dan Meuser"),
      RawRecord("", "Tesla Inc Call Options (TSLA)",
                StringAmount(RangeExample), "Sale (Full)", -2,
                "Marjorie Taylor Greene"),
      RawRecord("", "US Treasury Bill",
                StringAmount(KExample), "Purchase", -2, "Jim Banks"),
      RawRecord("--", "US Treasury Bill",
                StringAmount(KExample), "Purchase", -2, "Jim Banks"),
      RawRecord("nvda", "NVIDIA Corporation (NVDA)",
                StringAmount(KExample), "Purchase", -1, "Dan Crenshaw"),
      RawRecord("", "Growth Fund (the)",
                StringAmount(KExample), "Exchange", -2, "John Doe"),
      RawRecord("", "Holding Corp (ABCDEF)",
                StringAmount(KExample), "Purchase", -2, "John Doe"),
      RawRecord("NVDA", "NVIDIA Corporation (NVDA)",
                NumberAmount(15000), "Purchase", -2, "Josh Gottheimer"),
      RawRecord("NVDA", "NVIDIA Corporation (NVDA)",
                StringAmount(KExample), "Purchase", -400, "Paul Pelosi") }

RecordLists == UNION { [1..n -> RawRecords] : n \in 0..MaxRecords }

\* what the two providers answer with
ProviderData ==
    { d \in [house : RecordLists, senate : RecordLists] :
        Len(d.house) + Len(d.senate) <= MaxRecords }

UpperLetters ==
    {"A", "B", "C", "D", "E", "F", "G", "H", "I", "J", "K", "L", "M",
     "N", "O", "P", "Q", "R", "S", "T", "U", "V", "W", "X", "Y", "Z"}

\* re.search(r'\(([A-Z]{1,5})\)', asset_desc): group 1 of the leftmost
\* match, <<>> when there is none
ParenTicker(chars) ==
    LET starts ==
            { i \in 1..Len(chars) :
                /\ chars[i] = "("
                /\ \E n \in 1..5 :
                      /\ i + n + 1 <= Len(chars)
                      /\ \A k \in 1..n : chars[i + k] \in UpperLetters
                      /\ chars[i + n + 1] = ")" }
    IN  IF starts = {} THEN <<>>
        ELSE LET i == CHOOSE x \in starts : \A y \in starts : x <= y
                 n == CHOOSE m \in 1..5 :
                         /\ i + m + 1 <= Len(chars)
                         /\ \A k \in 1..m : chars[i + k] \in UpperLetters
                         /\ chars[i + m + 1] = ")"
             IN  SubSeq(chars, i + 1, i + n)

\* the string of a character sequence, for the symbols met here
Symbols == {"NVDA", "TSLA"}

Symbol(chars) == CHOOSE s \in Symbols : Chars(s) = chars

\* the ticker of a record: the ticker field when it is not empty, else the
\* symbol found in the description, else ''
ResolveTicker(record) ==
    IF record.ticker # "" THEN record.ticker
    ELSE LET m == ParenTicker(Chars(record.asset_description))
         IN  IF m # <<>> THEN Symbol(m) ELSE ""

IsPurchaseType(type) ==
    \/ Contains(Chars("purchase"), Lower(Chars(type)))
    \/ Contains(Chars("buy"), Lower(Chars(type)))

IsSaleType(type) ==
    \/ Contains(Chars("sale"), Lower(Chars(type)))
    \/ Contains(Chars("sell"), Lower(Chars(type)))

TransType(type) ==
    IF IsPurchaseType(type) THEN "purchase"
    ELSE IF IsSaleType(type) THEN "sale" ELSE "unknown"

\* trans_date < cutoff_date: trans_date is the midnight of its day and the
\* cutoff `days` days before now, the clock being past midnight
TooOld(date, now, days) == date <= now - days

\* fetch_from_apis: the body of the loop for one record, <<>> when the
\* record is skipped; an exception in the body skips the record as well
NormalizeRecord(record, source, now, days) ==
    LET ticker == ResolveTicker(record)
        amount == ParseAmount(record.amount)
    IN  IF TooOld(record.transaction_date, now, days) THEN <<>>
        ELSE IF ticker = "" THEN <<>>
        ELSE IF amount.outcome = "raised" THEN <<>>
        ELSE << Trade(ticker, record.transaction_date, record.filer,
                      TransType(record.type), amount.value, record.party,
                      record.asset_description, source) >>

RECURSIVE NormalizeAll(_, _, _, _)
NormalizeAll(list, source, now, days) ==
    IF list = <<>> THEN <<>>
    ELSE NormalizeRecord(Head(list), source, now, days)
         \o NormalizeAll(Tail(list), source, now, days)

\* how a provider's request can end: status 200 with a JSON list, a timeout
\* or connection error raised by requests.get, another status code, a body
\* that response.json() cannot decode
ProviderOutcomes == {"ok", "Timeout", "status_503", "JSONDecodeError"}

Providers == {"house", "senate"}

\* the outcomes in which requests.get or response.json() raises
IsException(outcome) == outcome \in {"Timeout", "JSONDecodeError"}

\* except Exception as e: requests' exceptions and JSONDecodeError are
\* subclasses of Exception
Caught(outcome) == IsException(outcome)

\* an exception leaves the fetch function
Escapes(resp) ==
    \E p \in Providers : IsException(resp[p]) /\ ~Caught(resp[p])

\* a fetch in which the first failure ends the whole fetch
AnsweredUntilFailure(d, resp) ==
    [house  |-> IF resp.house = "ok" THEN d.house ELSE <<>>,
     senate |-> IF resp.house = "ok" /\ resp.senate = "ok"
                THEN d.senate ELSE <<>>]

\* the records each provider's loop runs over: those of the answer when
\* status_code == 200 and the body decodes; the loop is not entered after
\* another status or an exception, each provider in a try of its own
Answered(d, resp) ==
    [house  |-> IF resp.house = "ok" THEN d.house ELSE <<>>,
     senate |-> IF resp.senate = "ok" THEN d.senate ELSE <<>>]

\* fetch_from_apis: House records, then Senate records
FetchFromApis(d, now, days) ==
    NormalizeAll(d.house, "house_stock_watcher", now, days)
    \o NormalizeAll(d.senate, "senate_stock_watcher", now, days)

\* fetch_all_purchases: the body of the loop for one record
PurchaseRecord(record, chamber, now) ==
    LET ticker == ResolveTicker(record)
        amount == ParseAmount(record.amount)
    IN  IF ~IsPurchaseType(record.type) THEN <<>>
        ELSE IF TooOld(record.transaction_date, now, lookback_days) THEN <<>>
        ELSE IF ticker = "" THEN <<>>
        ELSE IF amount.outcome = "raised" THEN <<>>
        ELSE IF amount.value >= min_position_size
             THEN << Purchase(ticker, record.transaction_date, record.filer,
                              amount.value, chamber) >>
             ELSE <<>>

RECURSIVE PurchasesFrom(_, _, _)
PurchasesFrom(list, chamber, now) ==
    IF list = <<>> THEN <<>>
    ELSE PurchaseRecord(Head(list), chamber, now)
         \o PurchasesFrom(Tail(list), chamber, now)

FetchAllPurchases(d, now) ==
    PurchasesFrom(d.house, "House", now) \o PurchasesFrom(d.senate, "Senate", now)

MeuserLookbackDays == 365
target_politician == "Dan Meuser"

MeuserType(type) ==
    IF IsPurchaseType(type) THEN "BUY"
    ELSE IF IsSaleType(type) THEN "SELL" ELSE "UNKNOWN"

\* fetch_dan_meuser_trades: the body of the loop for one record
MeuserRecord(record, now) ==
    LET ticker == ResolveTicker(record)
        amount == ParseAmount(record.amount)
    IN  IF ~Contains(Lower(Chars(target_politician)),
                     Lower(Chars(record.filer))) THEN <<>>
        ELSE IF TooOld(record.transaction_date, now, MeuserLookbackDays)
             THEN <<>>
        ELSE IF ticker = "" THEN <<>>
        ELSE IF amount.outcome = "raised" THEN <<>>
        ELSE << MeuserTrade(ticker, record.transaction_date,
                            MeuserType(record.type), amount.value) >>

RECURSIVE MeuserTradesFrom(_, _)
MeuserTradesFrom(list, now) ==
    IF list = <<>> THEN <<>>
    ELSE MeuserRecord(Head(list), now) \o MeuserTradesFrom(Tail(list), now)

\* fetch_dan_meuser_trades asks the House provider only
FetchDanMeuserTrades(d, now) == MeuserTradesFrom(d.house, now)

InitFetch ==
    /\ TrackerIdle
    /\ RunInit
    /\ ScanIdle
    /\ AlertIdle
    /\ PipelineIdle
    /\ ParseIdle
    /\ MirrorIdle
    /\ BuysIdle
    /\ ValueIdle
    /\ response \in [Providers -> ProviderOutcomes]
    /\ data \in ProviderData
    /\ normalized = <<>>
    /\ fetched = {}

\* the scanner fetches
ScannerFetch ==
    /\ "scanner" \notin fetched
    /\ IF Escapes(response)
       THEN /\ fetched' = fetched \cup {"scanner", "scanner raised"}
            /\ UNCHANGED normalized
       ELSE /\ \E days \in MaxDaysOld :
                  normalized' =
                      FetchFromApis(Answered(data, response), today, days)
            /\ fetched' = fetched \cup {"scanner"}
    /\ UNCHANGED <<pipeline, alertVars, response, data, trackerVars, runVars, configVars, scanVars,
                   parseVars, mirrorVars, buysVars, your_portfolio_value>>

\* CongressBuysStrategy fetches
BuysFetch ==
    /\ "buys" \notin fetched
    /\ IF Escapes(response)
       THEN /\ fetched' = fetched \cup {"buys", "buys raised"}
            /\ UNCHANGED purchases
       ELSE /\ purchases' =
                  FetchAllPurchases(Answered(data, response), today)
            /\ fetched' = fetched \cup {"buys"}
    /\ UNCHANGED <<pipeline, alertVars, response, data, normalized, buys_portfolio, buys_signals, buys_pc,
                   trackerVars, runVars, configVars, scanVars, parseVars,
                   mirrorVars, your_portfolio_value>>

NextFetch == ScannerFetch \/ BuysFetch

\* DanMeuserStrategy fetches
MeuserFetch ==
    /\ "meuser" \notin fetched
    /\ IF Escapes(response)
       THEN /\ fetched' = fetched \cup {"meuser", "meuser raised"}
            /\ UNCHANGED meuser_trades
       ELSE /\ meuser_trades' =
                  FetchDanMeuserTrades(Answered(data, response), today)
            /\ fetched' = fetched \cup {"meuser"}
    /\ UNCHANGED <<pipeline, alertVars, response, data, normalized, meuser_portfolio,
                   meuser_signals, meuser_pc, trackerVars, runVars,
                   configVars, scanVars, parseVars, buysVars,
                   your_portfolio_value>>

\* run_all_strategies.py: each strategy fetches, then computes its
\* portfolio and its signals from what it fetched if that is not empty
NextRunAll ==
    \/ BuysFetch
    \/ "buys" \in fetched /\ RunCongressBuys
    \/ MeuserFetch
    \/ "meuser" \in fetched /\ RunDanMeuser

SpecRunAll == InitFetch /\ [][NextRunAll]_vars

SpecFetch == InitFetch /\ [][NextFetch]_vars

----------------------------------------------------------------------------
(* Properties of the normalizers, under SpecFetch *)

\* a string of one to five upper-case letters
IsShortUpper(str) ==
    /\ str # ""
    /\ Len(Chars(str)) \in 1..5
    /\ \A i \in 1..Len(Chars(str)) : Chars(str)[i] \in UpperLetters

\* C20: every transaction the scanner's normalizer returns and every
\* purchase the aggregate strategy's normalizer returns has a ticker of one
\* to five upper-case letters.
C20_TickerIsSymbol ==
    /\ \A i \in 1..Len(normalized) : IsShortUpper(normalized[i].ticker)
    /\ \A i \in 1..Len(purchases) : IsShortUpper(purchases[i].ticker)

\* what does hold of the normalizers: a ticker is never empty; it is the
\* record's ticker field when there is one, else the symbol in parentheses
\* in the description; a record with neither is not in the output
TickerResolved ==
    /\ "scanner" \in fetched =>
          \A i \in 1..Len(normalized) :
             /\ normalized[i].ticker # ""
             /\ \E r \in RawRecords :
                   /\ \E k \in 1..Len(data.house \o data.senate) :
                         (data.house \o data.senate)[k] = r
                   /\ r.filer = normalized[i].representative
                   /\ r.transaction_date = normalized[i].transaction_date
                   /\ r.asset_description = normalized[i].asset_description
                   /\ IF r.ticker # "" THEN normalized[i].ticker = r.ticker
                      ELSE /\ IsShortUpper(normalized[i].ticker)
                           /\ Contains(<<"(">> \o Chars(normalized[i].ticker)
                                          \o <<")">>,
                                       Chars(r.asset_description))
    /\ \A i \in 1..Len(purchases) : purchases[i].ticker # ""

\* the scanner's loop keeps the record
Usable(record, days) ==
    /\ ~TooOld(record.transaction_date, today, days)
    /\ ResolveTicker(record) # ""
    /\ ParseAmount(record.amount).outcome = "returned"

\* the aggregate strategy's loop keeps the record
UsablePurchase(record) ==
    /\ IsPurchaseType(record.type)
    /\ Usable(record, lookback_days)
    /\ ParseAmount(record.amount).value >= min_position_size

\* the positions of a list that satisfy a test
CountUsable(list, days) ==
    Cardinality({ i \in 1..Len(list) : Usable(list[i], days) })

CountPurchases(list) ==
    Cardinality({ i \in 1..Len(list) : UsablePurchase(list[i]) })

CountSource(list, source) ==
    Cardinality({ i \in 1..Len(list) : list[i].source = source })

CountChamber(list, chamber) ==
    Cardinality({ i \in 1..Len(list) : list[i].chamber = chamber })

\* what a provider contributes: nothing unless its request succeeded
Expected(p, n) == IF response[p] = "ok" THEN n ELSE 0

\* C21: a fetch never raises; a provider whose request failed (exception or
\* status other than 200) contributes no record, and a provider whose
\* request succeeded contributes one record for each of its usable records,
\* whatever the other provider's outcome and whatever malformed records
\* stand in the same answer.
C21_ProviderFailureIsEmpty ==
    /\ "scanner raised" \notin fetched
    /\ "buys raised" \notin fetched
    /\ "scanner" \in fetched =>
          \E days \in MaxDaysOld :
             /\ CountSource(normalized, "house_stock_watcher")
                    = Expected("house", CountUsable(data.house, days))
             /\ CountSource(normalized, "senate_stock_watcher")
                    = Expected("senate", CountUsable(data.senate, days))
    /\ "buys" \in fetched =>
          /\ CountChamber(purchases, "House")
                 = Expected("house", CountPurchases(data.house))
          /\ CountChamber(purchases, "Senate")
                 = Expected("senate", CountPurchases(data.senate))

\* both fetches ran, the House request failed, the Senate answered with a
\* record whose amount makes parse_amount raise and a good record after it,
\* and the good record came through both
C21_Witness ==
    /\ fetched = {"scanner", "buys"}
    /\ response.house # "ok"
    /\ response.senate = "ok"
    /\ Len(data.senate) = 2
    /\ ParseAmount(data.senate[1].amount).outcome = "raised"
    /\ Len(normalized) = 1
    /\ normalized[1].source = "senate_stock_watcher"
    /\ Len(purchases) = 1
    /\ purchases[1].chamber = "Senate"

\* the same with the providers exchanged: the Senate request failed with an
\* exception and the House records came through
C21_WitnessHouse ==
    /\ "scanner" \in fetched
    /\ IsException(response.senate)
    /\ response.house = "ok"
    /\ Len(normalized) = 2

----------------------------------------------------------------------------
(* The alerters, discord_alerts.py and strategy_discord_alerts.py: an      *)
(* operation is a succession of requests.post calls to the webhook.        *)

MaxAlertSignals == 3

\* how a post can end: delivered, refused with another status,
\* requests.post raising
PostOutcomes == {"204", "status_429", "ConnectionError"}

Raises(outcome) == outcome = "ConnectionError"

\* the signals handed to send_signals, by their ticker
AlertSignals == {"NVDA", "TSLA"}

AlertSignalLists ==
    UNION { [1..n -> AlertSignals] : n \in 0..MaxAlertSignals }

\* max_signals: of the test main (5 there, 2 here to cut a list of three)
\* and the default
MaxSignalsValues == {2, 10}

\* recent_activity of send_dan_meuser_alert: empty or not
RecentActivities == { <<>>, <<"XYZ">> }

\* signals[:max_signals]
FirstN(list, n) == SubSeq(list, 1, IF Len(list) < n THEN Len(list) ELSE n)

Post(message, outcome) == [message |-> message, outcome |-> outcome]

\* the posts of a list of messages that are all attempted, the i-th post
\* getting the i-th answer of the webhook
PostAll(messages, webhook) ==
    [i \in 1..Len(messages) |-> Post(messages[i], webhook[i])]

\* send_signals: the summary, then one embed for each of the first
\* max_signals signals, each post in a try of its own
SignalMessages(signals, max_signals) ==
    <<"summary">>
    \o [i \in 1..Len(FirstN(signals, max_signals)) |-> signals[i]]

SendSignalsPosts(on, signals, max_signals, webhook) ==
    IF ~on THEN <<>>
    ELSE IF signals = <<>> THEN <<>>
    ELSE PostAll(SignalMessages(signals, max_signals), webhook)

\* sent_count: the embeds answered with 204
SentCount(posts) ==
    Cardinality({ i \in 1..Len(posts) :
                    posts[i].message # "summary" /\ posts[i].outcome = "204" })

\* send_congress_buys_alert: the summary, a return when its post raises,
\* then the top positions
CongressBuysMessages == <<"summary", "top_positions">>

CongressBuysPosts(on, webhook) ==
    IF ~on THEN <<>>
    ELSE IF Raises(webhook[1]) THEN << Post("summary", webhook[1]) >>
    ELSE PostAll(CongressBuysMessages, webhook)

\* send_dan_meuser_alert: the summary, a return when its post raises, the
\* recent activity if there is any, the top holdings
DanMeuserMessages(recent_activity) ==
    IF recent_activity # <<>>
    THEN <<"summary", "recent_activity", "top_holdings">>
    ELSE <<"summary", "top_holdings">>

DanMeuserPosts(on, recent_activity, webhook) ==
    IF ~on THEN <<>>
    ELSE IF Raises(webhook[1]) THEN << Post("summary", webhook[1]) >>
    ELSE PostAll(DanMeuserMessages(recent_activity), webhook)

InitAlerts ==
    /\ TrackerIdle
    /\ RunInit
    /\ ScanIdle
    /\ ParseIdle
    /\ FetchIdle
    /\ MirrorIdle
    /\ BuysIdle
    /\ ValueIdle
    /\ PipelineIdle
    /\ enabled \in BOOLEAN
    /\ answers \in [1..(MaxAlertSignals + 1) -> PostOutcomes]
    /\ alert_op = NoAlert
    /\ posted = <<>>
    /\ sent_count = 0

SendSignals ==
    /\ alert_op = NoAlert
    /\ \E signals \in AlertSignalLists, max_signals \in MaxSignalsValues :
          /\ alert_op' = [op |-> "send_signals", signals |-> signals,
                          max_signals |-> max_signals,
                          recent_activity |-> <<>>]
          /\ posted' = SendSignalsPosts(enabled, signals, max_signals, answers)
    /\ sent_count' = SentCount(posted')
    /\ UNCHANGED <<pipeline, enabled, answers, trackerVars, runVars, configVars,
                   scanVars, parseVars, fetchVars, mirrorVars, buysVars,
                   your_portfolio_value>>

SendCongressBuysAlert ==
    /\ alert_op = NoAlert
    /\ alert_op' = [NoAlert EXCEPT !.op = "send_congress_buys_alert"]
    /\ posted' = CongressBuysPosts(enabled, answers)
    /\ UNCHANGED <<pipeline, enabled, answers, sent_count, trackerVars, runVars,
                   configVars, scanVars, parseVars, fetchVars, mirrorVars,
                   buysVars, your_portfolio_value>>

SendDanMeuserAlert ==
    /\ alert_op = NoAlert
    /\ \E recent_activity \in RecentActivities :
          /\ alert_op' = [NoAlert EXCEPT !.op = "send_dan_meuser_alert",
                                         !.recent_activity = recent_activity]
          /\ posted' = DanMeuserPosts(enabled, recent_activity, answers)
    /\ UNCHANGED <<pipeline, enabled, answers, sent_count, trackerVars, runVars,
                   configVars, scanVars, parseVars, fetchVars, mirrorVars,
                   buysVars, your_portfolio_value>>

NextAlerts == SendSignals \/ SendCongressBuysAlert \/ SendDanMeuserAlert

SpecAlerts == InitAlerts /\ [][NextAlerts]_vars

----------------------------------------------------------------------------
(* Properties of the alerters, under SpecAlerts *)

\* the messages the operation called has to deliver
MessagesOf(op) ==
    IF op.op = "send_signals"
    THEN IF op.signals = <<>> THEN <<>>
         ELSE SignalMessages(op.signals, op.max_signals)
    ELSE IF op.op = "send_congress_buys_alert" THEN CongressBuysMessages
    ELSE IF op.op = "send_dan_meuser_alert"
         THEN DanMeuserMessages(op.recent_activity)
    ELSE <<>>

\* every message of the operation after a post that failed was attempted
LaterAttempted(messages) ==
    \A i \in 1..Len(posted) :
       posted[i].outcome # "204" =>
          \A j \in (i + 1)..Len(messages) :
             /\ j <= Len(posted)
             /\ posted[j].message = messages[j]

\* C22: in every alert-sending operation, after a post that failed (raised
\* or was answered with a status other than 204) each later message of the
\* operation is still posted.
C22_DeliveriesContinue == LaterAttempted(MessagesOf(alert_op))

\* what holds: the signal embeds of send_signals are all attempted whatever
\* failed before them, and in the strategy alerts a refused post (a status
\* other than 204) stops nothing
DeliveriesContinueUnlessSummaryRaises ==
    \/ alert_op.op # "send_signals" /\ posted # <<>> /\ Raises(posted[1].outcome)
    \/ LaterAttempted(MessagesOf(alert_op))

\* send_signals went on after an embed whose post raised
SendSignalsWentOn ==
    /\ alert_op.op = "send_signals"
    /\ Len(posted) = 4
    /\ Raises(posted[1].outcome)
    /\ Raises(posted[2].outcome)
    /\ sent_count = 2

----------------------------------------------------------------------------
(* Properties of the strategies fed by their own fetch, under SpecRunAll *)

\* two positions of a list with the same key
HasDuplicate(list, Key(_)) ==
    \E i, j \in 1..Len(list) : i < j /\ Key(list[i]) = Key(list[j])

PurchaseKey(p) == <<p.ticker, p.politician, p.date>>

\* every trade of the mirror strategy is of the one politician
MeuserKey(t) == <<t.ticker, t.date>>

\* C23: the list calculate_portfolio_weights and the list
\* calculate_current_portfolio are given never hold two records with the
\* same (ticker, politician, date), and the list the scanner's detectors
\* are given (the output of fetch_all_trades) does not either.
C23_ConsumersGetDeduplicated ==
    /\ buys_pc # "start" => ~HasDuplicate(purchases, PurchaseKey)
    /\ meuser_pc # "start" => ~HasDuplicate(meuser_trades, MeuserKey)
    /\ \A days \in MaxDaysOld :
          ~HasDuplicate(
              Dedup(FetchFromApis(Answered(data, response), today, days)),
              TradeKey)

\* what holds: the scanner's list alone is deduplicated
ScannerGetsDeduplicated ==
    \A days \in MaxDaysOld :
       ~HasDuplicate(
           Dedup(FetchFromApis(Answered(data, response), today, days)),
           TradeKey)

\* a disclosure reported twice has been counted twice in the aggregate
\* portfolio
CountedTwice ==
    /\ buys_pc # "start"
    /\ Len(data.house) = 2
    /\ data.house[1] = data.house[2]
    /\ Len(buys_portfolio.portfolio) = 1
    /\ buys_portfolio.portfolio[1].purchase_count = 2
    /\ buys_portfolio.portfolio[1].num_politicians = 1
    /\ buys_portfolio.portfolio[1].total_amount = 500000

----------------------------------------------------------------------------
(* Further properties of the tracker, under Spec *)

\* the record a step has appended to the history
Created(h) == h.tracked_signals[Len(h.tracked_signals)]

Appends ==
    Len(history'.tracked_signals) = Len(history.tracked_signals) + 1

\* C24: every record add_signal_to_history appends has status 'tracking'
\* and an entry price that is not None.
C24_EntryPriceCaptured ==
    [][Appends =>
          /\ Created(history').status = "tracking"
          /\ Created(history').entry_price # None]_vars

\* what holds: the record appended has status 'tracking' and the entry
\* price the caller gave, None when the caller gave none
CreatedTracking ==
    [][Appends =>
          /\ Created(history').status = "tracking"
          /\ Created(history').entry_price \in EntryPrices
          /\ Created(history').days_tracked = 0]_vars

\* a record without entry price has been through an update on a later day
\* and is still 'tracking', with no return
NeverPriced ==
    /\ lastOp.op = "update"
    /\ \E i \in 1..Len(history.tracked_signals) :
          LET r == history.tracked_signals[i]
          IN  /\ r.entry_price = None
              /\ r.status = "tracking"
              /\ r.entry_date + CloseDays <= today
              /\ "return_pct" \notin DOMAIN r

----------------------------------------------------------------------------
(* Further properties of the scanner, under SpecScan *)

IsSample(trade) == trade.source = "sample"

HasSample(list) == \E i \in 1..Len(list) : IsSample(list[i])

\* C25: a scan in live mode to which the providers contributed nothing
\* returns no trades and no signals, and a result whose mode is 'live'
\* holds no built-in sample record.
C25_LiveDegradesToEmpty ==
    scanned =>
       /\ ~use_sample_data /\ provided = <<>> =>
             /\ results.signals = <<>>
             /\ results.all_trades = <<>>
       /\ Get(results, "mode", "none") = "live" =>
             ~HasSample(results.all_trades)

\* what holds: a live scan the providers contributed to returns the
\* providers' trades only, and the sample records come into a live scan
\* only when the providers contributed nothing
SampleOnlyWhenEmpty ==
    scanned /\ ~use_sample_data =>
       IF provided # <<>> THEN ~HasSample(results.all_trades)
       ELSE /\ results.all_trades = SampleData(today)
            /\ results.mode = "live"

\* a live scan without provider records reports signals on sample records
LiveScanOnSample ==
    /\ scanned
    /\ ~use_sample_data
    /\ provided = <<>>
    /\ results.mode = "live"
    /\ results.signals # <<>>
    /\ HasSample(results.all_trades)

\* C26: no two records of tracked_signals have the same signal_id.
C26_SignalIdIsKey ==
    \A i, j \in 1..Len(history.tracked_signals) :
       i # j => history.tracked_signals[i].signal_id
                   # history.tracked_signals[j].signal_id

\* what holds: two records with the same signal_id have the same ticker
\* and entry date, and the same politician unless one comes from a signal
\* without politician
SignalIdDerived ==
    \A i, j \in 1..Len(history.tracked_signals) :
       LET a == history.tracked_signals[i]
           b == history.tracked_signals[j]
       IN  a.signal_id = b.signal_id =>
              /\ a.ticker = b.ticker
              /\ a.entry_date = b.entry_date
              /\ a.signal_id = <<a.ticker, a.signal_id[2], a.entry_date>>

\* the same signal was added twice on one day and the history holds two
\* records with one signal_id
AddedTwice ==
    /\ Len(history.tracked_signals) = 2
    /\ history.tracked_signals[1].signal_id
          = history.tracked_signals[2].signal_id
    /\ history.tracked_signals[1].signal_type
          = history.tracked_signals[2].signal_type
    /\ history.tracked_signals[1].entry_date = today

----------------------------------------------------------------------------
(* Further properties of the mirror strategy, under SpecMirror *)

\* the list with the trades at two positions exchanged
Swapped(list, i, j) ==
    [k \in 1..Len(list) |->
        IF k = i THEN list[j] ELSE IF k = j THEN list[i] ELSE list[k]]

\* the positions of a portfolio, without their order
Positions(p) == { p.portfolio[i] : i \in 1..Len(p.portfolio) }

\* C27: exchanging any two trades of the list leaves the portfolio's
\* positions (ticker, estimated_position, total_buys, total_sells,
\* last_trade_date, weight) and its total_value as they are; every list
\* up to the bound being checked, and every permutation being a succession
\* of exchanges, the same goes for every permutation.
C27_OrderIrrelevant ==
    meuser_pc # "start" =>
       \A i, j \in 1..Len(meuser_trades) :
          LET other == CalculateCurrentPortfolio(Swapped(meuser_trades, i, j))
          IN  /\ Positions(other) = Positions(meuser_portfolio)
              /\ other.total_value = meuser_portfolio.total_value
              /\ other.num_positions = meuser_portfolio.num_positions

\* a portfolio was computed from a list in which a later trade of a held
\* ticker stands before an earlier one, and a trade of another ticker
\* between them
C27_Witness ==
    /\ meuser_pc # "start"
    /\ Len(meuser_trades) = 3
    /\ meuser_trades[1] = MeuserTrade("XYZ", 2, "SELL", 20000)
    /\ meuser_trades[2] = MeuserTrade("ABC", 1, "BUY", 1500)
    /\ meuser_trades[3] = MeuserTrade("XYZ", 1, "BUY", 50000)
    /\ \E p \in Positions(meuser_portfolio) :
          /\ p.ticker = "XYZ"
          /\ p.estimated_position = 30000
          /\ p.last_trade_date = 2

\* the different politicians of a cluster
Members(c) == { c.politicians[i] : i \in 1..Len(c.politicians) }

\* C28: the count of every CLUSTER signal is the number of different
\* politicians in its politicians list, which is cluster_threshold or more.
C28_ClusterOfPoliticians ==
    scanned =>
       \A k \in 1..Len(clusters) :
          /\ clusters[k].count = Cardinality(Members(clusters[k]))
          /\ Cardinality(Members(clusters[k])) >= cluster_threshold

\* what holds: count is the number of purchases of the ticker, of
\* different (politician, date) pairs, and is cluster_threshold or more
ClusterOfPurchases ==
    scanned =>
       \A k \in 1..Len(clusters) :
          LET c == clusters[k]
          IN  /\ c.count >= cluster_threshold
              /\ c.count = Len(c.trades)
              /\ c.count = Cardinality({ <<c.politicians[i], c.dates[i]>> :
                                            i \in 1..Len(c.politicians) })

\* a cluster made of the purchases of one politician on two days
OneBuyerCluster ==
    /\ scanned
    /\ \E k \in 1..Len(clusters) :
          /\ clusters[k].count = 2
          /\ Members(clusters[k]) = {"Nancy Pelosi"}

\* the record carries the field
Carries(r, field) == field \in DOMAIN r

\* C29: a record is 'closed' exactly when it carries exit_date and
\* exit_price; a closed record carries return_pct, current_price and
\* days_tracked as well, and its exit_price is its current_price.
C29_ClosedHasExit ==
    \A i \in 1..Len(history.tracked_signals) :
       LET r == history.tracked_signals[i]
       IN  /\ r.status = "closed"
              <=> Carries(r, "exit_date") /\ Carries(r, "exit_price")
           /\ r.status = "closed" =>
                 /\ Carries(r, "return_pct")
                 /\ Carries(r, "current_price")
                 /\ Carries(r, "days_tracked")
                 /\ r.exit_price = r.current_price

\* the history holds a record an update closed on the day of the update
\* and a record updated before that is still open, with a return and no
\* exit
C29_Witness ==
    /\ Len(history.tracked_signals) = 2
    /\ \E i, j \in 1..2 :
          LET c == history.tracked_signals[i]
              o == history.tracked_signals[j]
          IN  /\ c.status = "closed"
              /\ c.exit_price = c.current_price
              /\ c.exit_date = c.entry_date + c.days_tracked
              /\ o.status = "tracking"
              /\ Carries(o, "return_pct")
              /\ ~Carries(o, "exit_date")

----------------------------------------------------------------------------
(* run_pipeline.py: scan, tracking step, alerts                            *)

MaxPipelineRuns == 2

\* signals[:5], the signals the tracking step looks at
TopSignals == 5

\* the classes of this repository's discord_alerts.py
AlerterClasses == {"EnhancedDiscordAlerter"}

\* from discord_alerts import DiscordAlerter
ImportFails(classes) == "DiscordAlerter" \notin classes

\* the tickers the tracking step prints 'Marking ... for tracking' for
RECURSIVE Marked(_)
Marked(signals) ==
    IF signals = <<>> THEN <<>>
    ELSE IF "ticker" \in DOMAIN Head(signals) /\ Head(signals).ticker # ""
         THEN <<Head(signals).ticker>> \o Marked(Tail(signals))
         ELSE Marked(Tail(signals))

\* the tracking step: the loop over the top signals prints and adds
\* nothing; the tracked signals are updated (and saved) if there are any
TrackingStep(h, signals, quote, now) ==
    IF h.tracked_signals # <<>> THEN UpdateHistory(h, quote, now) ELSE h

\* the scanner of the pipeline is made with the default use_sample_data;
\* `alerter` tells whether the module discord_alerts the interpreter finds
\* defines DiscordAlerter, which the one of this repository does not
InitPipeline ==
    /\ TrackerIdle
    /\ RunInit
    /\ ParseIdle /\ FetchIdle /\ MirrorIdle /\ BuysIdle /\ ValueIdle
    /\ AlertIdle
    /\ cluster_threshold \in ClusterThresholds
    /\ min_trade_size \in MinTradeSizes
    /\ use_sample_data = FALSE
    /\ provided \in ProvidedLists
    /\ trades = <<>>
    /\ unique_trades = <<>>
    /\ clusters = <<>>
    /\ large_trades = <<>>
    /\ top_performer_trades = <<>>
    /\ committee_aligned = <<>>
    /\ unusual_activity = <<>>
    /\ results = <<>>
    /\ scanned = FALSE
    /\ pipeline \in { [NoPipeline EXCEPT !.alerter = b] : b \in BOOLEAN }

\* one run of run_pipeline.py: the import, then main; the history stands
\* for the history file too, which main saves whenever it changes it
RunPipeline ==
    /\ pipeline.runs < MaxPipelineRuns
    /\ IF ImportFails(IF pipeline.alerter
                      THEN AlerterClasses \cup {"DiscordAlerter"}
                      ELSE AlerterClasses)
       THEN /\ pipeline' = [pipeline EXCEPT !.runs = @ + 1,
                                            !.outcome = "ImportError"]
            /\ UNCHANGED <<trackerVars, scanVars>>
       ELSE /\ scanned' = TRUE
            /\ trades' = FetchedTrades(use_sample_data, provided, today)
            /\ unique_trades' = Dedup(trades')
            /\ clusters' = DetectClusters(unique_trades', cluster_threshold)
            /\ large_trades' = DetectLargeTrades(unique_trades', min_trade_size)
            /\ top_performer_trades' = DetectTopPerformerTrades(unique_trades')
            /\ committee_aligned' = DetectCommitteeAlignedTrades(unique_trades')
            /\ unusual_activity' = DetectUnusualActivity(unique_trades')
            /\ results' = ScanResults(
                             SortByPriority(AllSignals(clusters', large_trades',
                                 top_performer_trades', committee_aligned',
                                 unusual_activity')),
                             unique_trades', use_sample_data)
            /\ \E quote \in Quotes(history) :
                  history' = TrackingStep(history, results'.signals, quote,
                                          today)
            /\ lastOp' = [op |-> "pipeline"]
            /\ pipeline' = [pipeline EXCEPT
                               !.runs = @ + 1,
                               !.outcome = "complete",
                               !.marked = Marked(FirstN(results'.signals,
                                                        TopSignals))]
            /\ UNCHANGED today
    /\ UNCHANGED <<runVars, configVars, parseVars, fetchVars, mirrorVars,
                   buysVars, your_portfolio_value, alertVars>>

NextPipeline == RunPipeline

SpecPipeline == InitPipeline /\ [][NextPipeline]_vars

----------------------------------------------------------------------------
(* Properties of the pipeline, under SpecPipeline *)

PipelineNeverTracks ==
    /\ history.tracked_signals = <<>>
    /\ pipeline.outcome = "complete" =>
          /\ Len(pipeline.marked) = Len(FirstN(results.signals, TopSignals))
          /\ \A i \in 1..Len(pipeline.marked) :
                pipeline.marked[i] = results.signals[i].ticker
    /\ pipeline.outcome = "ImportError" => ~scanned

\* two runs came to their end, signals were detected and named, and the
\* history is still empty
NothingTracked ==
    /\ pipeline.runs = 2
    /\ pipeline.outcome = "complete"
    /\ Len(results.signals) >= TopSignals
    /\ Len(pipeline.marked) = TopSignals
    /\ history.tracked_signals = <<>>

============================================================================
